---- MODULE Spec2Model ----
(***************************************************************************)
(* The response builder of engine-v2 (response/write/mod.rs) and the       *)
(* entities deserializer that fills a ResponsePart                         *)
(* (sources/graphql/deserialize/entities.rs).                              *)
(*                                                                         *)
(* Rust indices are 0-based and are kept 0-based in every id stored in the *)
(* model; a TLA+ sequence is 1-based, so every access adds one.            *)
(***************************************************************************)
EXTENDS Integers, Sequences, FiniteSets, TLC

\* Bounds of the model.
MaxParts == 3        \* new_writer calls per request
ListLen == 2         \* items of a list written by an executor
MaxEntities == 3     \* elements of an upstream `_entities` array
MaxBoundaryObjects == 2 \* boundary objects of the part fed by visit_seq
MaxCalls == 3        \* next_writer calls made on one part

VARIABLES
    root,       \* ResponseBuilder.root
    parts,      \* ResponseBuilder.parts
    errors,     \* ResponseBuilder.errors
    pending,    \* the ResponseParts handed out by new_writer and not yet ingested: id -> part
    handoffs,   \* the plan boundaries returned by ingest so far
    issued,     \* the part ids new_writer has returned, in call order
    last,       \* the builder call made last, with its argument
    part,       \* a ResponsePart under execution (entities deserializer)
    entities,   \* the upstream `_entities` array fed to visit_seq
    plan,       \* the fields of the plan's collected selection set (PlanWalker)
    handed,     \* the results of the next_writer calls made on `part`
    visited,    \* what visit_seq returned, once it ran
    strong_count,     \* Rc::strong_count of `part`: the executor's handle and its live clones
    upstream_errors,  \* the upstream `errors` value fed to the errors seed
    errors_count,     \* what the errors seed returned, once it ran
    op_cache,   \* Engine.op_cache: query text -> Operation
    lock,       \* the RwLock of op_cache: the callers holding a read guard, the one holding the write guard
    calls,      \* the cached_prepare_operation call of each caller: its position and its locals
    served,     \* the number of calls started so far
    stream,     \* an execute_stream call: the producer, its channel and what the stream yielded
    subgraph_headers, \* subgraph.headers(): the header rules of the subgraph
    ctx_headers,      \* the headers of the client request, read by ctx.header(name)
    fetch_request,    \* the FetchRequest posted to the subgraph, once it is
    upstream_response, \* the upstream response map fed to GraphqlResponseSeed
    status            \* what ingest_deserializer_into_response returned, once it ran

vars == <<root, parts, errors, pending, handoffs, issued, last, part, entities, plan, handed, visited,
          strong_count,
          upstream_errors, errors_count, op_cache, lock, calls, served, stream,
          subgraph_headers, ctx_headers, fetch_request, upstream_response, status>>
builderVars == <<root, parts, errors, pending, handoffs, issued, last>>
partVars == <<part, entities, plan, handed, visited, strong_count>>
sourceVars == <<upstream_errors, errors_count>>
engineVars == <<op_cache, lock, calls, served, stream>>
subgraphVars == <<subgraph_headers, ctx_headers, fetch_request, upstream_response, status>>

----------------------------------------------------------------------------
\* Option

None == [t |-> "None"]
Some(x) == [t |-> "Some", v |-> x]

\* Result
Ok(v) == [ok |-> TRUE, v |-> v]
Err(e) == [ok |-> FALSE, err |-> e]

\* No upstream `errors` value is being deserialized.
NoUpstreamErrors == upstream_errors = None /\ errors_count = None

\* Engine::new: the cache is empty and its lock is free.
Engine_new ==
    /\ op_cache = <<>>
    /\ lock = [readers |-> {}, writer |-> None]

\* No caller asks the engine for an operation or a stream.
NoCalls == calls = <<>> /\ served = 0 /\ stream = None

\* No subgraph is being requested and no upstream response is being read.
NoSubgraphRequest ==
    /\ subgraph_headers = <<>>
    /\ ctx_headers = <<>>
    /\ fetch_request = None
    /\ upstream_response = None
    /\ status = None

Min(S) == CHOOSE x \in S : \A y \in S : x <= y

----------------------------------------------------------------------------
\* ResponseValue, ResponseEdge, ids

Null == [t |-> "Null"]
Scalar == [t |-> "String"]
Object(nullable, part_id, index) ==
    [t |-> "Object", nullable |-> nullable, part_id |-> part_id, index |-> index]
List(nullable, part_id, offset, length) ==
    [t |-> "List", nullable |-> nullable, part_id |-> part_id, offset |-> offset, length |-> length]

is_null(value) == value.t = "Null"

BoundResponseKey(k) == [kind |-> "BoundResponseKey", n |-> k]
ExtraFieldResponseKey(k) == [kind |-> "ExtraFieldResponseKey", n |-> k]
Index(i) == [kind |-> "Index", n |-> i]

ResponseObjectId(part_id, index) == [part_id |-> part_id, index |-> index]
ResponseListId(part_id, offset, length) == [part_id |-> part_id, offset |-> offset, length |-> length]
ResponseObjectRef(id, path) == [id |-> id, path |-> path]

\* path is an Option: the error of a slot has one, an internal error has none.
GraphqlError(message, path) == [message |-> message, path |-> path]

----------------------------------------------------------------------------
\* ResponseDataPart

ResponseDataPart_new(id) == [id |-> id, objects |-> <<>>, lists |-> <<>>]

is_empty(data) == data.objects = <<>> /\ data.lists = <<>>

\* Appends the object, returns the data and the id of the object.
push_object(data, object) ==
    [data |-> [data EXCEPT !.objects = Append(@, object)],
     id |-> ResponseObjectId(data.id, Len(data.objects))]

\* Appends the values as one contiguous range, returns the data and the list id.
push_list(data, values) ==
    [data |-> [data EXCEPT !.lists = @ \o values],
     id |-> ResponseListId(data.id, Len(data.lists), Len(values))]

\* ResponseObject: its fields, pairs of an edge and a value.
field_position(object, edge) ==
    LET hits == {i \in 1..Len(object) : object[i].edge = edge}
    IN IF hits = {} THEN None ELSE Some(Min(hits) - 1)

extend(object, fields) == object \o fields

----------------------------------------------------------------------------
\* ResponseBuilder, as a record [root, parts, errors]

ObjectAt(b, object_id) == b.parts[object_id.part_id + 1].objects[object_id.index + 1]
ListAt(b, list_id) ==
    SubSeq(b.parts[list_id.part_id + 1].lists, list_id.offset + 1, list_id.offset + list_id.length)

ResponseBuilder_new ==
    LET pushed == push_object(ResponseDataPart_new(0), <<>>)
    IN [root |-> [t |-> "Some", id |-> pushed.id, object_id |-> 0],
        parts |-> <<pushed.data>>,
        errors |-> <<>>]

root_response_boundary_item(b) ==
    IF b.root.t = "None" THEN None ELSE Some(ResponseObjectRef(b.root.id, <<>>))

Left(object_id) == [t |-> "Left", id |-> object_id]
Right(list_id) == [t |-> "Right", id |-> list_id]
ObjectField(object_id, position) ==
    [t |-> "ObjectField", object_id |-> object_id, field_position |-> position]
ListItem(list_id, index) == [t |-> "ListItem", list_id |-> list_id, index |-> index]

Returned == [ret |-> TRUE, last_nullable |-> None]
Walked(last_nullable) == [ret |-> FALSE, last_nullable |-> last_nullable]

\* The value an edge leads to from `previous`, with its ResponseValueId; None where the
\* code returns (no such field, index out of range, edge kind not fitting the node).
resolve_edge(b, previous, edge) ==
    IF previous.t = "Left" /\ edge.kind \in {"BoundResponseKey", "ExtraFieldResponseKey"}
    THEN LET pos == field_position(ObjectAt(b, previous.id), edge)
         IN IF pos.t = "None" THEN None
            ELSE Some([id |-> ObjectField(previous.id, pos.v),
                       value |-> ObjectAt(b, previous.id)[pos.v + 1].value])
    ELSE IF previous.t = "Right" /\ edge.kind = "Index"
    THEN IF edge.n >= previous.id.length THEN None
         ELSE Some([id |-> ListItem(previous.id, edge.n),
                    value |-> ListAt(b, previous.id)[edge.n + 1]])
    ELSE None

RECURSIVE walk_path(_, _, _, _, _)

\* walk_path keeping the first nullable value met instead of the last.
walk_path_first(b, path, i, previous, last_nullable) ==
    IF i > Len(path) THEN Walked(last_nullable)
    ELSE LET r == resolve_edge(b, previous, path[i])
             keep == IF r.v.value.nullable /\ last_nullable.t = "None"
                     THEN Some(r.v.id) ELSE last_nullable
         IN IF r.t = "None" THEN Returned
            ELSE IF is_null(r.v.value) THEN Returned
            ELSE IF r.v.value.t = "Object"
            THEN walk_path(b, path, i + 1,
                           Left(ResponseObjectId(r.v.value.part_id, r.v.value.index)), keep)
            ELSE IF r.v.value.t = "List"
            THEN walk_path(b, path, i + 1,
                           Right(ResponseListId(r.v.value.part_id, r.v.value.offset, r.v.value.length)),
                           keep)
            ELSE Walked(last_nullable)

\* walk_path leaving the loop at a Null value instead of returning.
walk_path_break(b, path, i, previous, last_nullable) ==
    IF i > Len(path) THEN Walked(last_nullable)
    ELSE LET r == resolve_edge(b, previous, path[i])
         IN IF r.t = "None" THEN Returned
            ELSE IF r.v.value.t = "Object"
            THEN walk_path(b, path, i + 1,
                           Left(ResponseObjectId(r.v.value.part_id, r.v.value.index)),
                           IF r.v.value.nullable THEN Some(r.v.id) ELSE last_nullable)
            ELSE IF r.v.value.t = "List"
            THEN walk_path(b, path, i + 1,
                           Right(ResponseListId(r.v.value.part_id, r.v.value.offset, r.v.value.length)),
                           IF r.v.value.nullable THEN Some(r.v.id) ELSE last_nullable)
            ELSE Walked(last_nullable)

\* walk_path ending the walk at an edge that does not resolve instead of returning.
walk_path_stop(b, path, i, previous, last_nullable) ==
    IF i > Len(path) THEN Walked(last_nullable)
    ELSE LET r == resolve_edge(b, previous, path[i])
         IN IF r.t = "None" THEN Walked(last_nullable)
            ELSE IF is_null(r.v.value) THEN Returned
            ELSE IF r.v.value.t = "Object"
            THEN walk_path(b, path, i + 1,
                           Left(ResponseObjectId(r.v.value.part_id, r.v.value.index)),
                           IF r.v.value.nullable THEN Some(r.v.id) ELSE last_nullable)
            ELSE IF r.v.value.t = "List"
            THEN walk_path(b, path, i + 1,
                           Right(ResponseListId(r.v.value.part_id, r.v.value.offset, r.v.value.length)),
                           IF r.v.value.nullable THEN Some(r.v.id) ELSE last_nullable)
            ELSE Walked(last_nullable)

\* The loop of propagate_error from edge i of the path on.
walk_path(b, path, i, previous, last_nullable) ==
    IF i > Len(path) THEN Walked(last_nullable)
    ELSE LET r == resolve_edge(b, previous, path[i])
         IN IF r.t = "None" THEN Returned
            ELSE IF is_null(r.v.value) THEN Returned
            ELSE IF r.v.value.t = "Object"
            THEN walk_path(b, path, i + 1,
                           Left(ResponseObjectId(r.v.value.part_id, r.v.value.index)),
                           IF r.v.value.nullable THEN Some(r.v.id) ELSE last_nullable)
            ELSE IF r.v.value.t = "List"
            THEN walk_path(b, path, i + 1,
                           Right(ResponseListId(r.v.value.part_id, r.v.value.offset, r.v.value.length)),
                           IF r.v.value.nullable THEN Some(r.v.id) ELSE last_nullable)
            ELSE Walked(last_nullable)

set_value(b, id, value) ==
    IF id.t = "ObjectField"
    THEN [b EXCEPT !.parts[id.object_id.part_id + 1].objects[id.object_id.index + 1][id.field_position + 1].value = value]
    ELSE [b EXCEPT !.parts[id.list_id.part_id + 1].lists[id.list_id.offset + id.index + 1] = value]

\* propagate_error taking an early return of the walk for a path without nullable value.
propagate_error_no_return(b, path) ==
    IF b.root.t = "None" THEN b
    ELSE LET w == walk_path(b, path, 1, Left(b.root.id), None)
         IN IF w.last_nullable.t = "Some" THEN set_value(b, w.last_nullable.v, Null)
            ELSE [b EXCEPT !.root = None]

propagate_error(b, path) ==
    IF b.root.t = "None" THEN b
    ELSE LET w == walk_path(b, path, 1, Left(b.root.id), None)
         IN IF w.ret THEN b
            ELSE IF w.last_nullable.t = "Some" THEN set_value(b, w.last_nullable.v, Null)
            ELSE [b EXCEPT !.root = None]

----------------------------------------------------------------------------
\* ResponsePart (ResponsePartInner) and ResponseWriter

Reserved == [t |-> "Reserved"]
Fields(fields) == [t |-> "Fields", fields |-> fields]
Error == [t |-> "Error"]

\* plan_boundary_ids is the range start .. start + count - 1.
ResponsePart_new(data, root_response_objects, start, count) ==
    [data |-> data,
     root_response_objects |-> root_response_objects,
     errors |-> <<>>,
     updates |-> <<>>,
     error_paths_to_propagate |-> <<>>,
     plan_boundary_ids_start |-> start,
     plan_boundaries |-> [k \in 1..count |-> [id |-> start + k - 1, refs |-> <<>>]]]

\* Returns the part and the writer's index, None when no writer is handed out.
next_writer(p) ==
    IF Len(p.updates) = Len(p.data.objects)
    THEN [part |-> p, writer |-> None]
    ELSE [part |-> [p EXCEPT !.updates = Append(@, Reserved)],
          writer |-> Some(Len(p.updates))]

root_path(p, index) == p.root_response_objects[index + 1].path

ResponseWriter_push_object(p, object) ==
    LET pushed == push_object(p.data, object)
    IN [part |-> [p EXCEPT !.data = pushed.data], id |-> pushed.id]

ResponseWriter_push_list(p, values) ==
    LET pushed == push_list(p.data, values)
    IN [part |-> [p EXCEPT !.data = pushed.data], id |-> pushed.id]

update_root_object_with(p, index, fields) ==
    [p EXCEPT !.updates[index + 1] = Fields(fields)]

ResponseWriter_propagate_error(p, index, error) ==
    [p EXCEPT !.errors = Append(@, error), !.updates[index + 1] = Error]

continue_error_propagation(p, index) ==
    [p EXCEPT !.updates[index + 1] = Error]

push_error(p, error) == [p EXCEPT !.errors = Append(@, error)]

----------------------------------------------------------------------------
\* ResponseBuilder::new_writer and ResponseBuilder::ingest

\* new_writer taking the id of the last part instead of the next one.
new_writer_last_id(b, root_response_objects, start, count) ==
    LET id == Len(b.parts) - 1
    IN [b |-> [b EXCEPT !.parts = Append(@, ResponseDataPart_new(id))],
        part |-> ResponsePart_new(ResponseDataPart_new(id), root_response_objects, start, count)]

new_writer(b, root_response_objects, start, count) ==
    LET id == Len(b.parts)
    IN [b |-> [b EXCEPT !.parts = Append(@, ResponseDataPart_new(id))],
        part |-> ResponsePart_new(ResponseDataPart_new(id), root_response_objects, start, count)]

\* The loop with the fields of a slot put before the fields the object had.
RECURSIVE apply_updates_prepend(_, _, _, _)
apply_updates_prepend(b, updates, refs, k) ==
    IF k > Len(updates) \/ k > Len(refs) THEN [panic |-> "none", b |-> b]
    ELSE IF updates[k].t = "Reserved" THEN [panic |-> "not yet implemented", b |-> b]
    ELSE IF updates[k].t = "Fields"
    THEN apply_updates_prepend(
            [b EXCEPT !.parts[refs[k].id.part_id + 1].objects[refs[k].id.index + 1] =
                          updates[k].fields \o @],
            updates, refs, k + 1)
    ELSE apply_updates_prepend(propagate_error(b, refs[k].path), updates, refs, k + 1)

\* The loop with the fields of a slot replacing the fields the object had.
RECURSIVE apply_updates_replace(_, _, _, _)
apply_updates_replace(b, updates, refs, k) ==
    IF k > Len(updates) \/ k > Len(refs) THEN [panic |-> "none", b |-> b]
    ELSE IF updates[k].t = "Reserved" THEN [panic |-> "not yet implemented", b |-> b]
    ELSE IF updates[k].t = "Fields"
    THEN apply_updates_replace(
            [b EXCEPT !.parts[refs[k].id.part_id + 1].objects[refs[k].id.index + 1] =
                          updates[k].fields],
            updates, refs, k + 1)
    ELSE apply_updates_replace(propagate_error(b, refs[k].path), updates, refs, k + 1)

\* The loop over part.updates zipped with part.root_response_objects, from pair k on.
\* A Reserved slot reaches todo!(): the builder is left as it is at that point.
RECURSIVE apply_updates(_, _, _, _)
apply_updates(b, updates, refs, k) ==
    IF k > Len(updates) \/ k > Len(refs) THEN [panic |-> "none", b |-> b]
    ELSE IF updates[k].t = "Reserved" THEN [panic |-> "not yet implemented", b |-> b]
    ELSE IF updates[k].t = "Fields"
    THEN apply_updates(
            [b EXCEPT !.parts[refs[k].id.part_id + 1].objects[refs[k].id.index + 1] =
                          extend(@, updates[k].fields)],
            updates, refs, k + 1)
    ELSE apply_updates(propagate_error(b, refs[k].path), updates, refs, k + 1)

RECURSIVE propagate_paths(_, _, _)
propagate_paths(b, paths, k) ==
    IF k > Len(paths) THEN b
    ELSE propagate_paths(propagate_error(b, paths[k]), paths, k + 1)

\* ingest without the assertion on the reserved slot.
ingest_overwrite(b, p) ==
    LET stored == [b EXCEPT !.parts[p.data.id + 1] = p.data,
                            !.errors = @ \o p.errors]
        updated == apply_updates(stored, p.updates, p.root_response_objects, 1)
    IN IF updated.panic # "none"
       THEN [panic |-> updated.panic, b |-> updated.b, boundaries |-> <<>>]
       ELSE [panic |-> "none",
             b |-> propagate_paths(updated.b, p.error_paths_to_propagate, 1),
             boundaries |-> p.plan_boundaries]

\* ingest leaving the reserved slot as it is.
ingest_no_store(b, p) ==
    IF ~is_empty(b.parts[p.data.id + 1])
    THEN [panic |-> "Part already has data", b |-> b, boundaries |-> <<>>]
    ELSE LET stored == [b EXCEPT !.errors = @ \o p.errors]
             updated == apply_updates(stored, p.updates, p.root_response_objects, 1)
         IN IF updated.panic # "none"
            THEN [panic |-> updated.panic, b |-> updated.b, boundaries |-> <<>>]
            ELSE [panic |-> "none",
                  b |-> propagate_paths(updated.b, p.error_paths_to_propagate, 1),
                  boundaries |-> p.plan_boundaries]

\* ingest handing the plan boundaries back before the update slots are applied.
ingest_skip_updates(b, p) ==
    IF ~is_empty(b.parts[p.data.id + 1])
    THEN [panic |-> "Part already has data", b |-> b, boundaries |-> <<>>]
    ELSE [panic |-> "none",
          b |-> [b EXCEPT !.parts[p.data.id + 1] = p.data, !.errors = @ \o p.errors],
          boundaries |-> p.plan_boundaries]

\* ingest with the errors of the part put before the errors of the builder.
ingest_errors_first(b, p) ==
    IF ~is_empty(b.parts[p.data.id + 1])
    THEN [panic |-> "Part already has data", b |-> b, boundaries |-> <<>>]
    ELSE LET stored == [b EXCEPT !.parts[p.data.id + 1] = p.data,
                                 !.errors = p.errors \o @]
             updated == apply_updates(stored, p.updates, p.root_response_objects, 1)
         IN IF updated.panic # "none"
            THEN [panic |-> updated.panic, b |-> updated.b, boundaries |-> <<>>]
            ELSE [panic |-> "none",
                  b |-> propagate_paths(updated.b, p.error_paths_to_propagate, 1),
                  boundaries |-> p.plan_boundaries]

\* Returns the builder, the plan boundaries handed back, and the panic that ended the
\* call if any.
ingest(b, p) ==
    IF ~is_empty(b.parts[p.data.id + 1])
    THEN [panic |-> "Part already has data", b |-> b, boundaries |-> <<>>]
    ELSE LET stored == [b EXCEPT !.parts[p.data.id + 1] = p.data,
                                 !.errors = @ \o p.errors]
             updated == apply_updates(stored, p.updates, p.root_response_objects, 1)
         IN IF updated.panic # "none"
            THEN [panic |-> updated.panic, b |-> updated.b, boundaries |-> <<>>]
            ELSE [panic |-> "none",
                  b |-> propagate_paths(updated.b, p.error_paths_to_propagate, 1),
                  boundaries |-> p.plan_boundaries]

\* ResponseBuilder::build: the initial response, made of the root object if the root was
\* not nulled, of the parts and of the errors.
ResponseBuilder_build(b) ==
    [data |-> [root |-> IF b.root.t = "Some" THEN Some(b.root.id) ELSE None,
               parts |-> b.parts],
     errors |-> b.errors]

\* Rc::into_inner(part.inner).expect(..): the content of the part when the handle given
\* to ingest is the last one.
Rc_into_inner(p, count) ==
    IF count = 1 THEN Ok(p) ELSE Err("All use of ResponsePart must be finished by now.")

\* ResponseBuilder::ingest of the handle of a part.
ResponseBuilder_ingest(b, p, count) ==
    IF ~Rc_into_inner(p, count).ok
    THEN [panic |-> Rc_into_inner(p, count).err, b |-> b, boundaries |-> <<>>]
    ELSE ingest(b, Rc_into_inner(p, count).v)

----------------------------------------------------------------------------
\* The executor of a plan: what it writes through the writers of its part before the
\* part is given back.  A shape says what is written for one boundary object.

Shape(k, nullable, items) == [k |-> k, nullable |-> nullable, items |-> items]

\* Lists and bare scalars are written by the root plan only (the boundary object with
\* the empty path); a child plan writes an object or fails.
Shapes(ref) ==
    {Shape("Error", FALSE, <<>>)}
    \cup {Shape("Object", n, <<>>) : n \in BOOLEAN}
    \cup (IF ref.path = <<>>
          THEN {Shape("Scalar", FALSE, <<>>)}
               \cup {Shape("List", n, f) : n \in BOOLEAN, f \in [1..ListLen -> BOOLEAN]}
          ELSE {})

\* Records the object as an item of the part's first plan boundary, if it has one.
push_boundary_item(p, ref) ==
    IF p.plan_boundaries = <<>> THEN p
    ELSE [p EXCEPT !.plan_boundaries[1].refs = Append(@, ref)]

\* The objects of a list, pushed one after the other; returns the part and the values.
RECURSIVE write_items(_, _, _, _, _)
write_items(p, path, flags, i, values) ==
    IF i > Len(flags) THEN [part |-> p, values |-> values]
    ELSE LET edge == BoundResponseKey(p.data.id)
             o == ResponseWriter_push_object(p, <<[edge |-> edge, value |-> Scalar]>>)
         IN write_items(push_boundary_item(o.part, ResponseObjectRef(o.id, path \o <<Index(i - 1)>>)),
                        path, flags, i + 1,
                        Append(values, Object(flags[i], o.id.part_id, o.id.index)))

\* What the seed of the writer `index` does for one shape.
write_shape(p, index, shape) ==
    LET edge == BoundResponseKey(p.data.id)
        path == root_path(p, index) \o <<edge>>
    IN IF shape.k = "Error"
       THEN ResponseWriter_propagate_error(p, index, GraphqlError("Upstream data error", Some(path)))
       ELSE IF shape.k = "Scalar"
       THEN update_root_object_with(p, index, <<[edge |-> edge, value |-> Scalar]>>)
       ELSE IF shape.k = "Object"
       THEN LET o == ResponseWriter_push_object(p, <<[edge |-> edge, value |-> Scalar]>>)
            IN update_root_object_with(
                   push_boundary_item(o.part, ResponseObjectRef(o.id, path)), index,
                   <<[edge |-> edge, value |-> Object(shape.nullable, o.id.part_id, o.id.index)]>>)
       ELSE LET w == write_items(p, path, shape.items, 1, <<>>)
                l == ResponseWriter_push_list(w.part, w.values)
            IN update_root_object_with(l.part, index,
                   <<[edge |-> edge,
                      value |-> List(shape.nullable, l.id.part_id, l.id.offset, l.id.length)]>>)

\* One writer per boundary object, in the order of root_response_objects: the slot is
\* reserved, then resolved by the seed.
RECURSIVE write_shapes(_, _, _)
write_shapes(p, shapes, k) ==
    IF k > Len(shapes) THEN p
    ELSE write_shapes(write_shape([p EXCEPT !.updates = Append(@, Reserved)], k - 1, shapes[k]),
                      shapes, k + 1)

\* The sequences of shapes for the boundary objects refs[k..]; an executor may stop
\* early and leave the last boundary objects without a slot.
RECURSIVE ShapeSeqs(_, _)
ShapeSeqs(refs, k) ==
    IF k > Len(refs) THEN {<<>>}
    ELSE {<<>>} \cup {<<s>> \o rest : s \in Shapes(refs[k]), rest \in ShapeSeqs(refs, k + 1)}

ExecutorOutputs(p) == {write_shapes(p, shapes, 1) : shapes \in ShapeSeqs(p.root_response_objects, 1)}

----------------------------------------------------------------------------
\* The request: the coordinator reserves parts, executors fill them, the parts are ingested.

Builder == [root |-> root, parts |-> parts, errors |-> errors]

Range(f) == {f[x] : x \in DOMAIN f}

\* The boundary objects a plan can be scheduled with: the root item for the root plan
\* (the operation has one root plan, reserved first), or the items of a boundary a
\* parent handed off.
Schedulable ==
    (IF root.t = "Some" /\ issued = <<>>
     THEN {<<root_response_boundary_item(Builder).v>>} ELSE {})
    \cup {h.refs : h \in {x \in handoffs : x.refs # <<>>}}

IdlePart == ResponsePart_new(ResponseDataPart_new(0), <<>>, 0, 0)

Init ==
    /\ root = ResponseBuilder_new.root
    /\ parts = ResponseBuilder_new.parts
    /\ errors = ResponseBuilder_new.errors
    /\ pending = <<>>
    /\ handoffs = {}
    /\ issued = <<>>
    /\ last = [op |-> "new"]
    /\ part = IdlePart
    /\ entities = <<>>
    /\ plan = <<>>
    /\ handed = <<>>
    /\ visited = None
    /\ strong_count = 1
    /\ NoUpstreamErrors
    /\ Engine_new
    /\ NoCalls
    /\ NoSubgraphRequest

NewWriter(refs, count) ==
    /\ Len(parts) <= MaxParts
    /\ LET r == new_writer(Builder, refs, Len(parts), count)
       IN /\ parts' = r.b.parts
          /\ root' = r.b.root
          /\ errors' = r.b.errors
          /\ pending' = [i \in DOMAIN pending \cup {r.part.data.id} |->
                            IF i = r.part.data.id THEN r.part ELSE pending[i]]
          /\ issued' = Append(issued, r.part.data.id)
          /\ last' = [op |-> "new_writer", id |-> r.part.data.id]
    /\ UNCHANGED <<handoffs, partVars>>
    /\ UNCHANGED <<sourceVars, engineVars, subgraphVars>>

Ingest(id, p) ==
    LET r == ingest(Builder, p)
    IN /\ r.panic = "none"
       /\ root' = r.b.root
       /\ parts' = r.b.parts
       /\ errors' = r.b.errors
       /\ pending' = [i \in DOMAIN pending \ {id} |-> pending[i]]
       /\ handoffs' = handoffs \cup Range(r.boundaries)
       /\ last' = [op |-> "ingest", id |-> id, part |-> p, before |-> Builder]
       /\ UNCHANGED <<issued, partVars>>
       /\ UNCHANGED <<sourceVars, engineVars, subgraphVars>>

Next ==
    \/ \E refs \in Schedulable : NewWriter(refs, 1)
    \/ \E id \in DOMAIN pending : \E p \in ExecutorOutputs(pending[id]) : Ingest(id, p)

Spec == Init /\ [][Next]_vars

----------------------------------------------------------------------------
\* The request with executors that fail

\* The executor of a reserved part fails or is cancelled before it gives the part back:
\* the part is dropped with the executor, the error is recorded without a path, and the
\* response keeps what the other plans wrote.
Fail(id) ==
    /\ errors' = Append(errors, GraphqlError("error sending request for url", None))
    /\ pending' = [i \in DOMAIN pending \ {id} |-> pending[i]]
    /\ last' = [op |-> "fail", id |-> id, part |-> pending[id], before |-> Builder]
    /\ UNCHANGED <<root, parts, handoffs, issued, partVars>>
    /\ UNCHANGED <<sourceVars, engineVars, subgraphVars>>

NextCoordinator ==
    \/ Next
    \/ \E id \in DOMAIN pending : Fail(id)

SpecCoordinator == Init /\ [][NextCoordinator]_vars

----------------------------------------------------------------------------
\* The deserialization of an upstream `_entities` array into a part.

\* JSON values, as far as the seeds tell them apart: a string stands for every value
\* a scalar seed accepts, a number for every value it rejects.
JNull == [t |-> "null"]
JString == [t |-> "string"]
JNumber == [t |-> "number"]
JObject(entries) == [t |-> "object", entries |-> entries]
JArray(items) == [t |-> "array", items |-> items]
Entry(key, value) == [key |-> key, value |-> value]

\* Wrapping: the inner-required flag and the list layers, the outermost one last.
Wrapping(inner_is_required, list_wrapping) ==
    [inner_is_required |-> inner_is_required, list_wrapping |-> list_wrapping]

is_required(wrapping) ==
    IF wrapping.list_wrapping = <<>> THEN wrapping.inner_is_required
    ELSE wrapping.list_wrapping[Len(wrapping.list_wrapping)] = "RequiredList"

ScalarType == [t |-> "Scalar"]
SelectionSetType(fields) == [t |-> "SelectionSet", fields |-> fields]

\* A field of a collected selection set; the JSON key n is the key of the edge
\* BoundResponseKey(n).
ConcreteField(edge, ty, wrapping) == [edge |-> edge, ty |-> ty, wrapping |-> wrapping]

\* A scalar field of the plan's collected selection set.
CollectedField(edge, required) == ConcreteField(edge, ScalarType, Wrapping(required, <<>>))

\* SeedContext: the part, the index of the writer, the response path and the
\* propagating_error flag.
SeedContext_new(p, index) ==
    [part |-> p, index |-> index, path |-> root_path(p, index), propagating_error |-> FALSE]

push_edge(ctx, edge) == [ctx EXCEPT !.path = Append(@, edge)]
pop_edge(ctx) == [ctx EXCEPT !.path = SubSeq(@, 1, Len(@) - 1)]

\* The result of a seed: the context it leaves, and the value or the error.
SeedOk(ctx, value) == [ctx |-> ctx, ok |-> TRUE, value |-> value]
SeedErr(ctx, err) == [ctx |-> ctx, ok |-> FALSE, err |-> err]

\* NullableSeed marks the value it lets through as nullable.
into_nullable(value) ==
    IF value.t \in {"Object", "List"} THEN [value EXCEPT !.nullable = TRUE] ELSE value

StringSeed(ctx, value) ==
    IF value.t = "string" THEN SeedOk(ctx, Scalar) ELSE SeedErr(ctx, "invalid type")

\* The elements of an upstream `_entities` array: an object that fits the plans below,
\* the JSON null, an object whose first field has the wrong type, and a value that is
\* neither null nor an object.
Elements ==
    {JObject(<<Entry(2, JString), Entry(3, JString)>>),
     JNull,
     JObject(<<Entry(2, JNumber), Entry(3, JString)>>),
     JString}

\* The array breaks off where an element should start.
Truncated == [t |-> "truncated"]

\* FieldSeed: map_err.  The first failure below a seed context records the error at the
\* field's path and raises the propagating_error flag.
FieldSeed_map_err(ctx, field, err) ==
    IF ~ctx.propagating_error
    THEN [ctx EXCEPT !.propagating_error = TRUE,
                     !.part = push_error(@, GraphqlError(err, Some(ctx.path \o <<field.edge>>)))]
    ELSE ctx

\* The value of Op for `x`, with `x` evaluated once.
Bind(x, Op(_)) == CHOOSE out \in {Op(v) : v \in {x}} : TRUE

RECURSIVE FieldSeed_deserialize(_, _, _, _)
RECURSIVE SelectionSetSeed_deserialize(_, _, _)
RECURSIVE ListSeed_deserialize(_, _, _, _)
RECURSIVE fields_seed(_, _, _, _, _)
RECURSIVE missing_fields(_, _, _, _)
RECURSIVE list_items(_, _, _, _, _, _)

\* NullableSeed over the seed whose result for a value that is not null is `inner`.
NullableSeed(ctx, value, inner) ==
    IF value.t = "null" THEN SeedOk(ctx, Null)
    ELSE IF inner.ok THEN SeedOk(inner.ctx, into_nullable(inner.value))
    ELSE inner

\* The typed seed of the field's inner type.
typed_seed(ctx, field, value) ==
    IF field.ty.t = "Scalar" THEN StringSeed(ctx, value)
    ELSE SelectionSetSeed_deserialize(ctx, field.ty.fields, value)

\* The list branch of FieldSeed::deserialize: the outermost list wrapping is popped.
FieldSeed_list(ctx, field, wrapping, value) ==
    Bind(ListSeed_deserialize(ctx, field,
                              [wrapping EXCEPT !.list_wrapping = SubSeq(@, 1, Len(@) - 1)], value),
         LAMBDA list :
             IF wrapping.list_wrapping[Len(wrapping.list_wrapping)] = "RequiredList"
             THEN list
             ELSE NullableSeed(ctx, value, list))

\* FieldSeed::deserialize without its final map_err; leaves through an early return
\* between push_edge and pop_edge when the typed seed fails.
FieldSeed_inner_early_return(ctx, field, wrapping, value) ==
    IF wrapping.list_wrapping # <<>>
    THEN FieldSeed_list(ctx, field, wrapping, value)
    ELSE Bind(typed_seed(push_edge(ctx, field.edge), field, value),
              LAMBDA typed :
                  Bind(IF wrapping.inner_is_required THEN typed
                       ELSE NullableSeed(push_edge(ctx, field.edge), value, typed),
                       LAMBDA result :
                           IF result.ok THEN [result EXCEPT !.ctx = pop_edge(@)] ELSE result))

\* FieldSeed::deserialize without its final map_err; accepts a null for a required
\* inner type.
FieldSeed_inner_lenient(ctx, field, wrapping, value) ==
    IF wrapping.list_wrapping # <<>>
    THEN FieldSeed_list(ctx, field, wrapping, value)
    ELSE Bind(typed_seed(push_edge(ctx, field.edge), field, value),
              LAMBDA typed :
                  Bind(NullableSeed(push_edge(ctx, field.edge), value, typed),
                       LAMBDA result : [result EXCEPT !.ctx = pop_edge(@)]))

\* FieldSeed::deserialize without its final map_err.
FieldSeed_inner(ctx, field, wrapping, value) ==
    IF wrapping.list_wrapping # <<>>
    THEN FieldSeed_list(ctx, field, wrapping, value)
    ELSE Bind(typed_seed(push_edge(ctx, field.edge), field, value),
              LAMBDA typed :
                  Bind(IF wrapping.inner_is_required THEN typed
                       ELSE NullableSeed(push_edge(ctx, field.edge), value, typed),
                       LAMBDA result : [result EXCEPT !.ctx = pop_edge(@)]))

\* FieldSeed::deserialize recording an error at every level the failure passes.
FieldSeed_deserialize_every_level(ctx, field, wrapping, value) ==
    Bind(FieldSeed_inner(ctx, field, wrapping, value),
         LAMBDA result :
             IF result.ok THEN result
             ELSE [result EXCEPT !.ctx.part =
                      push_error(@, GraphqlError(result.err, Some(result.ctx.path \o <<field.edge>>)))])

FieldSeed_deserialize(ctx, field, wrapping, value) ==
    Bind(FieldSeed_inner(ctx, field, wrapping, value),
         LAMBDA result :
             IF result.ok THEN result
             ELSE [result EXCEPT !.ctx = FieldSeed_map_err(result.ctx, field, result.err)])

\* The fields no entry of the map gave, from field k on: a required one fails, a
\* nullable one is Null.
missing_fields(ctx, fields, k, acc) ==
    IF k > Len(fields) THEN SeedOk(ctx, acc)
    ELSE IF \E i \in 1..Len(acc) : acc[i].edge = fields[k].edge
    THEN missing_fields(ctx, fields, k + 1, acc)
    ELSE IF is_required(fields[k].wrapping) THEN SeedErr(ctx, "Missing required field")
    ELSE missing_fields(ctx, fields, k + 1, Append(acc, [edge |-> fields[k].edge, value |-> Null]))

\* The fields seed of a collected selection set over the entries of a map, from entry k
\* on: an entry no field expects is ignored, a failing field ends the map.
fields_seed(ctx, fields, entries, k, acc) ==
    IF k > Len(entries) THEN missing_fields(ctx, fields, 1, acc)
    ELSE LET expecting == {i \in 1..Len(fields) : fields[i].edge.n = entries[k].key}
         IN IF expecting = {} THEN fields_seed(ctx, fields, entries, k + 1, acc)
            ELSE Bind(FieldSeed_deserialize(ctx, fields[Min(expecting)],
                                            fields[Min(expecting)].wrapping, entries[k].value),
                      LAMBDA result :
                          IF ~result.ok THEN result
                          ELSE fields_seed(result.ctx, fields, entries, k + 1,
                                           Append(acc, [edge |-> fields[Min(expecting)].edge,
                                                        value |-> result.value])))

\* SelectionSetSeed: the object is pushed into the part of the writer.
SelectionSetSeed_deserialize(ctx, fields, value) ==
    IF value.t # "object" THEN SeedErr(ctx, "invalid type")
    ELSE Bind(fields_seed(ctx, fields, value.entries, 1, <<>>),
              LAMBDA result :
                  IF ~result.ok THEN result
                  ELSE Bind(ResponseWriter_push_object(result.ctx.part, result.value),
                            LAMBDA pushed :
                                SeedOk([result.ctx EXCEPT !.part = pushed.part],
                                       Object(FALSE, pushed.id.part_id, pushed.id.index))))

\* The items of a list from item i on, each under its index edge.
list_items(ctx, field, wrapping, items, i, acc) ==
    IF i > Len(items) THEN SeedOk(ctx, acc)
    ELSE Bind(FieldSeed_deserialize(push_edge(ctx, Index(i - 1)), field, wrapping, items[i]),
              LAMBDA result :
                  IF ~result.ok THEN [result EXCEPT !.ctx = pop_edge(@)]
                  ELSE list_items(pop_edge(result.ctx), field, wrapping, items, i + 1,
                                  Append(acc, result.value)))

\* ListSeed: the values are pushed into the part as one list.
ListSeed_deserialize(ctx, field, wrapping, value) ==
    IF value.t # "array" THEN SeedErr(ctx, "invalid type")
    ELSE Bind(list_items(ctx, field, wrapping, value.items, 1, <<>>),
              LAMBDA result :
                  IF ~result.ok THEN result
                  ELSE Bind(ResponseWriter_push_list(result.ctx.part, result.value),
                            LAMBDA pushed :
                                SeedOk([result.ctx EXCEPT !.part = pushed.part],
                                       List(FALSE, pushed.id.part_id, pushed.id.offset,
                                            pushed.id.length))))

\* NullableVisitor over the fields seed of the plan's collected selection set:
\* Ok(None) for null, Ok(Some(fields)) or Err otherwise.
deserialize_option(ctx, fields, value) ==
    IF value.t = "null" THEN SeedOk(ctx, None)
    ELSE IF value.t # "object" THEN SeedErr(ctx, "invalid type")
    ELSE Bind(fields_seed(ctx, fields, value.entries, 1, <<>>),
              LAMBDA result : IF result.ok THEN SeedOk(result.ctx, Some(result.value)) ELSE result)

\* The fields written for a null value, with an error for every required field.
RECURSIVE null_fields_every_required(_, _, _, _, _)
null_fields_every_required(p, index, fields, k, acc) ==
    IF k > Len(fields)
    THEN IF \E i \in 1..Len(fields) : is_required(fields[i].wrapping) THEN p
         ELSE update_root_object_with(p, index, acc)
    ELSE IF is_required(fields[k].wrapping)
    THEN null_fields_every_required(
             ResponseWriter_propagate_error(p, index,
                 GraphqlError("Missing required field", Some(root_path(p, index) \o <<fields[k].edge>>))),
             index, fields, k + 1, acc)
    ELSE null_fields_every_required(p, index, fields, k + 1,
                                    Append(acc, [edge |-> fields[k].edge, value |-> Null]))

\* The fields written for a null value, a required field taken for a nullable one.
RECURSIVE null_fields_all_null(_, _, _, _, _)
null_fields_all_null(p, index, fields, k, acc) ==
    IF k > Len(fields) THEN update_root_object_with(p, index, acc)
    ELSE null_fields_all_null(p, index, fields, k + 1,
                              Append(acc, [edge |-> fields[k].edge, value |-> Null]))

\* The fields written for a null value, without a pair for a nullable field.
RECURSIVE null_fields_no_push(_, _, _, _, _)
null_fields_no_push(p, index, fields, k, acc) ==
    IF k > Len(fields) THEN update_root_object_with(p, index, acc)
    ELSE IF is_required(fields[k].wrapping)
    THEN ResponseWriter_propagate_error(p, index,
             GraphqlError("Missing required field", Some(root_path(p, index) \o <<fields[k].edge>>)))
    ELSE null_fields_no_push(p, index, fields, k + 1, acc)

\* The fields written for a null value from field k of the selection set on: the first
\* required field ends the loop with an error.
RECURSIVE null_fields(_, _, _, _, _)
null_fields(p, index, fields, k, acc) ==
    IF k > Len(fields) THEN update_root_object_with(p, index, acc)
    ELSE IF is_required(fields[k].wrapping)
    THEN ResponseWriter_propagate_error(p, index,
             GraphqlError("Missing required field", Some(root_path(p, index) \o <<fields[k].edge>>)))
    ELSE null_fields(p, index, fields, k + 1, Append(acc, [edge |-> fields[k].edge, value |-> Null]))

\* UpdateSeed::deserialize recording the error of a failed value without resolving the
\* slot.
UpdateSeed_deserialize_error_only(p, index, fields, value) ==
    Bind(deserialize_option(SeedContext_new(p, index), fields, value),
         LAMBDA result :
             IF result.ok /\ result.value.t = "Some"
             THEN update_root_object_with(result.ctx.part, index, result.value.v)
             ELSE IF result.ok
             THEN null_fields(p, index, fields, 1, <<>>)
             ELSE IF ~result.ctx.propagating_error
             THEN push_error(result.ctx.part, GraphqlError(result.err, Some(result.ctx.path)))
             ELSE result.ctx.part)

\* UpdateSeed::deserialize for the writer `index`; always Ok(()).
UpdateSeed_deserialize(p, index, fields, value) ==
    Bind(deserialize_option(SeedContext_new(p, index), fields, value),
         LAMBDA result :
             IF result.ok /\ result.value.t = "Some"
             THEN update_root_object_with(result.ctx.part, index, result.value.v)
             ELSE IF result.ok
             THEN null_fields(p, index, fields, 1, <<>>)
             ELSE IF ~result.ctx.propagating_error
             THEN ResponseWriter_propagate_error(result.ctx.part, index,
                      GraphqlError(result.err, Some(result.ctx.path)))
             ELSE continue_error_propagation(result.ctx.part, index))

\* The elements left once the loop over the seeds is over, from element k on.
drain_excess(p, seq, k) ==
    IF k > Len(seq) THEN [part |-> p, result |-> "Ok", consumed |-> Len(seq)]
    ELSE IF seq[k] = Truncated THEN [part |-> p, result |-> "Err", consumed |-> k - 1]
    ELSE LET reported == push_error(p, GraphqlError("Received more entities than expected", None))
         IN IF seq[Len(seq)] = Truncated
            THEN [part |-> reported, result |-> "Err", consumed |-> Len(seq) - 1]
            ELSE [part |-> reported, result |-> "Ok", consumed |-> Len(seq)]

\* EntitiesSeed::visit_seq from element k of the array on.
RECURSIVE visit_seq(_, _, _, _)
visit_seq(p, fields, seq, k) ==
    Bind(next_writer(p),
         LAMBDA seed :
             IF seed.writer.t = "None" THEN drain_excess(p, seq, k)
             ELSE IF k > Len(seq) THEN drain_excess(seed.part, seq, k)
             ELSE IF seq[k] = Truncated
             THEN [part |-> seed.part, result |-> "Err", consumed |-> k - 1]
             ELSE Bind(UpdateSeed_deserialize(seed.part, seed.writer.v, fields, seq[k]),
                       LAMBDA updated : visit_seq(updated, fields, seq, k + 1)))

\* The request up to the start of an entity plan: the root plan wrote a list of n
\* objects, its part was ingested, and a part was reserved for the entity plan with the
\* objects of the list as boundary objects.
EntityPlanStart(n, list_nullable, item_nullable) ==
    LET root_plan == new_writer(ResponseBuilder_new, <<root_response_boundary_item(ResponseBuilder_new).v>>, 0, 1)
        written == write_shapes(root_plan.part,
                                <<Shape("List", list_nullable, [i \in 1..n |-> item_nullable])>>, 1)
        parent == ingest(root_plan.b, written)
        child == new_writer(parent.b, parent.boundaries[1].refs, 1, 0)
    IN [b |-> child.b, part |-> child.part, boundaries |-> parent.boundaries]

Plans ==
    {<<CollectedField(BoundResponseKey(2), r)>> : r \in BOOLEAN}
    \cup {<<CollectedField(BoundResponseKey(2), FALSE), CollectedField(BoundResponseKey(3), TRUE)>>}

\* The arrays of at most MaxEntities elements; a truncated array ends where it breaks.
RECURSIVE Arrays(_)
Arrays(len) ==
    IF len = 0 THEN {<<>>}
    ELSE LET shorter == Arrays(len - 1)
         IN shorter \cup {Append(a, e) : a \in {x \in shorter : Len(x) = len - 1 /\ Truncated \notin Range(x)},
                                         e \in Elements \cup {Truncated}}

\* The states an entity plan can start in.
EntityPlanStarts ==
    {EntityPlanStart(n, list_nullable, item_nullable) :
        n \in 0..MaxBoundaryObjects, list_nullable \in BOOLEAN, item_nullable \in BOOLEAN}

InitPart ==
    /\ \E start \in EntityPlanStarts :
          /\ root = start.b.root
          /\ parts = start.b.parts
          /\ errors = start.b.errors
          /\ pending = [i \in {start.part.data.id} |-> start.part]
          /\ handoffs = Range(start.boundaries)
          /\ issued = <<1, start.part.data.id>>
          /\ last = [op |-> "new_writer", id |-> start.part.data.id]
          /\ part = start.part
    /\ entities \in Arrays(MaxEntities)
    /\ plan \in Plans
    /\ handed = <<>>
    /\ visited = None
    /\ strong_count = 1
    /\ NoUpstreamErrors
    /\ Engine_new
    /\ NoCalls
    /\ NoSubgraphRequest

\* One next_writer call on the part.
NextWriter ==
    /\ visited = None
    /\ Len(handed) < MaxCalls
    /\ part' = next_writer(part).part
    /\ handed' = Append(handed, next_writer(part).writer)
    /\ strong_count' = IF next_writer(part).writer.t = "Some" THEN strong_count + 1 ELSE strong_count
    /\ UNCHANGED <<builderVars, entities, plan, visited>>
    /\ UNCHANGED <<sourceVars, engineVars, subgraphVars>>

\* The upstream array is deserialized into the part.
VisitSeq ==
    /\ visited = None
    /\ handed = <<>>
    /\ LET r == visit_seq(part, plan, entities, 1)
       IN /\ part' = r.part
          /\ visited' = Some([result |-> r.result, consumed |-> r.consumed])
    /\ UNCHANGED <<builderVars, entities, plan, handed, strong_count>>
    /\ UNCHANGED <<sourceVars, engineVars, subgraphVars>>

\* The executor gives the part back and the coordinator ingests it.
IngestPart ==
    /\ visited.t = "Some"
    /\ part.data.id \in DOMAIN pending
    /\ LET r == ResponseBuilder_ingest(Builder, part, strong_count)
       IN /\ r.panic = "none"
          /\ root' = r.b.root
          /\ parts' = r.b.parts
          /\ errors' = r.b.errors
          /\ pending' = [i \in DOMAIN pending \ {part.data.id} |-> pending[i]]
          /\ handoffs' = handoffs \cup Range(r.boundaries)
          /\ last' = [op |-> "ingest", id |-> part.data.id, part |-> part, before |-> Builder]
    /\ UNCHANGED <<issued, partVars>>
    /\ UNCHANGED <<sourceVars, engineVars, subgraphVars>>

NextPart ==
    \/ NextWriter
    \/ VisitSeq
    \/ IngestPart

SpecPart == InitPart /\ [][NextPart]_vars

----------------------------------------------------------------------------
\* One UpdateSeed at work: a writer was handed out for the only boundary object of a
\* part, one JSON value is fed to its seed, and the part is ingested.

\* The request at the start of the root plan: its part is reserved with the root object
\* as the only boundary object.
RootPlanStart ==
    LET root_plan == new_writer(ResponseBuilder_new, <<root_response_boundary_item(ResponseBuilder_new).v>>, 0, 0)
    IN [b |-> root_plan.b, part |-> root_plan.part, boundaries |-> <<>>]

SeedStarts ==
    {RootPlanStart}
    \cup {EntityPlanStart(1, list_nullable, item_nullable) :
             list_nullable \in BOOLEAN, item_nullable \in BOOLEAN}

\* The wrappings of a scalar: String!, String, [String!]!, [String!], [String]!.
ScalarWrappings ==
    {Wrapping(r, <<>>) : r \in BOOLEAN}
    \cup {Wrapping(TRUE, <<l>>) : l \in {"RequiredList", "NullableList"}}
    \cup {Wrapping(FALSE, <<"RequiredList">>)}

\* Selection sets of one required scalar, nested once and twice.
Inner == SelectionSetType(<<CollectedField(BoundResponseKey(4), TRUE)>>)
Outer == SelectionSetType(<<ConcreteField(BoundResponseKey(4), Inner, Wrapping(TRUE, <<>>))>>)

SeedPlans ==
    {<<ConcreteField(BoundResponseKey(2), ScalarType, w)>> : w \in ScalarWrappings}
    \cup {<<ConcreteField(BoundResponseKey(2), Inner, Wrapping(r, <<>>))>> : r \in BOOLEAN}
    \cup {<<ConcreteField(BoundResponseKey(2), Outer, Wrapping(TRUE, <<>>))>>}
    \cup {<<CollectedField(BoundResponseKey(2), r2), CollectedField(BoundResponseKey(3), r3)>> :
             r2 \in BOOLEAN, r3 \in BOOLEAN}

\* The values upstream can give for one field.
FieldValues ==
    {JString, JNull, JNumber}
    \cup {JObject(<<Entry(4, v)>>) : v \in {JString, JNull, JNumber}}
    \cup {JObject(<<Entry(4, JObject(<<Entry(4, v)>>))>>) : v \in {JString, JNull, JNumber}}
    \cup {JArray(<<JString, v>>) : v \in {JString, JNull, JNumber}}

\* The values upstream can give for `data` or for an entity.
SeedValues ==
    {JNull, JString, JObject(<<>>)}
    \cup {JObject(<<Entry(2, v)>>) : v \in FieldValues}
    \cup {JObject(<<Entry(2, v), Entry(3, JString)>>) : v \in FieldValues}
    \cup {JObject(<<Entry(2, JString), Entry(3, v)>>) : v \in {JNull, JNumber}}

InitSeed ==
    /\ \E start \in SeedStarts :
          /\ root = start.b.root
          /\ parts = start.b.parts
          /\ errors = start.b.errors
          /\ pending = [i \in {start.part.data.id} |-> start.part]
          /\ handoffs = Range(start.boundaries)
          /\ issued = [k \in 1..start.part.data.id |-> k]
          /\ last = [op |-> "new_writer", id |-> start.part.data.id]
          /\ part = [start.part EXCEPT !.updates = <<Reserved>>]
    /\ \E value \in SeedValues : entities = <<value>>
    /\ plan \in SeedPlans
    /\ handed = <<Some(0)>>
    /\ visited = None
    /\ strong_count = 2
    /\ NoUpstreamErrors
    /\ Engine_new
    /\ NoCalls
    /\ NoSubgraphRequest

\* The value is fed to the UpdateSeed of the writer, and the seed is kept.
Deserialize_keep_seed ==
    /\ visited = None
    /\ part' = UpdateSeed_deserialize(part, handed[1].v, plan, entities[1])
    /\ visited' = Some([result |-> "Ok", consumed |-> 1,
                        path |-> deserialize_option(SeedContext_new(part, handed[1].v),
                                                    plan, entities[1]).ctx.path])
    /\ UNCHANGED <<builderVars, entities, plan, handed, strong_count>>
    /\ UNCHANGED <<sourceVars, engineVars, subgraphVars>>

\* The value is fed to the UpdateSeed of the writer, which is consumed with its writer.
Deserialize ==
    /\ visited = None
    /\ part' = UpdateSeed_deserialize(part, handed[1].v, plan, entities[1])
    /\ visited' = Some([result |-> "Ok", consumed |-> 1,
                        path |-> deserialize_option(SeedContext_new(part, handed[1].v),
                                                    plan, entities[1]).ctx.path])
    /\ strong_count' = strong_count - 1
    /\ UNCHANGED <<builderVars, entities, plan, handed>>
    /\ UNCHANGED <<sourceVars, engineVars, subgraphVars>>

NextSeed ==
    \/ Deserialize
    \/ IngestPart

SpecSeed == InitSeed /\ [][NextSeed]_vars

----------------------------------------------------------------------------
\* The errors seed: the upstream `errors` array rewritten into the part.

\* JSON values of an upstream path: an unsigned integer and a string.
JIndex(n) == [t |-> "u64", n |-> n]
JKey(name) == [t |-> "string", s |-> name]

\* ResponseKeys: the names the operation's response keys are interned under.
ResponseKeys == [name \in {"a", "b"} |-> IF name = "a" THEN 2 ELSE 3]

ResponseKeys_get(name) ==
    IF name \in DOMAIN ResponseKeys THEN Some(ResponseKeys[name]) ELSE None

\* A key of an upstream error object, JSON null when the object does not have it.
Field(raw, key) == IF key \in DOMAIN raw THEN raw[key] ELSE JNull

\* SubgraphGraphqlError, deserialized from an upstream error object: message is
\* required, the other keys default to null.
SubgraphGraphqlError(raw) ==
    [message |-> raw.message,
     locations |-> Field(raw, "locations"),
     path |-> Field(raw, "path"),
     extensions |-> Field(raw, "extensions")]

\* BTreeMap::insert
insert(map, key, value) ==
    [k \in DOMAIN map \cup {key} |-> IF k = key THEN value ELSE map[k]]

\* The loop of RootErrorPathConverter::convert keeping the edges translated so far when
\* a segment does not translate.
RECURSIVE convert_edges_prefix(_, _, _)
convert_edges_prefix(segments, i, out) ==
    IF i > Len(segments) THEN Some(out)
    ELSE IF segments[i].t = "u64"
    THEN convert_edges_prefix(segments, i + 1, Append(out, Index(segments[i].n)))
    ELSE IF segments[i].t # "string" THEN Some(out)
    ELSE IF ResponseKeys_get(segments[i].s).t = "None" THEN Some(out)
    ELSE convert_edges_prefix(segments, i + 1,
                              Append(out, ExtraFieldResponseKey(ResponseKeys_get(segments[i].s).v)))

\* The loop of RootErrorPathConverter::convert from segment i on.
RECURSIVE convert_edges(_, _, _)
convert_edges(segments, i, out) ==
    IF i > Len(segments) THEN Some(out)
    ELSE IF segments[i].t = "u64"
    THEN convert_edges(segments, i + 1, Append(out, Index(segments[i].n)))
    ELSE IF segments[i].t # "string" THEN None
    ELSE IF ResponseKeys_get(segments[i].s).t = "None" THEN None
    ELSE convert_edges(segments, i + 1,
                       Append(out, ExtraFieldResponseKey(ResponseKeys_get(segments[i].s).v)))

\* RootErrorPathConverter::convert
convert(path) ==
    IF path.t # "array" THEN None ELSE convert_edges(path.items, 1, <<>>)

\* The GraphqlError of an upstream error.
UpstreamGraphqlError(message, path, extensions) ==
    [message |-> message, path |-> path, extensions |-> extensions]

\* The rewriting of one upstream error, storing the upstream path whenever it is present.
rewrite_always_path(error) ==
    LET located == IF error.locations # JNull
                   THEN insert(<<>>, "upstream_locations", error.locations) ELSE <<>>
        pathed == IF error.path # JNull
                  THEN insert(located, "upstream_path", error.path) ELSE located
        extended == IF error.extensions # JNull
                    THEN insert(pathed, "upstream_extensions", error.extensions) ELSE pathed
    IN UpstreamGraphqlError("Upstream error: " \o error.message, convert(error.path), extended)

\* The rewriting of one upstream error.
rewrite(error) ==
    LET located == IF error.locations # JNull
                   THEN insert(<<>>, "upstream_locations", error.locations) ELSE <<>>
        pathed == IF convert(error.path).t = "None" /\ error.path # JNull
                  THEN insert(located, "upstream_path", error.path) ELSE located
        extended == IF error.extensions # JNull
                    THEN insert(pathed, "upstream_extensions", error.extensions) ELSE pathed
    IN UpstreamGraphqlError("Upstream error: " \o error.message, convert(error.path), extended)

push_errors(p, new_errors) == [p EXCEPT !.errors = @ \o new_errors]

\* DeserializeSeed for GraphqlErrorsSeed: the value does not deserialize into a
\* Vec<SubgraphGraphqlError> when it is no array or an element has no message.
GraphqlErrorsSeed_deserialize(p, value) ==
    IF value.t # "array" \/ \E i \in 1..Len(value.items) : "message" \notin DOMAIN value.items[i]
    THEN [part |-> p, ok |-> FALSE]
    ELSE [part |-> push_errors(p, [i \in 1..Len(value.items) |->
                                      rewrite(SubgraphGraphqlError(value.items[i]))]),
          ok |-> TRUE,
          count |-> Len(value.items)]

MaxErrors == 2

\* The paths an upstream error can carry.
UpstreamPaths ==
    {JNull,
     JKey("a"),
     JArray(<<>>),
     JArray(<<JKey("a")>>),
     JArray(<<JKey("a"), JIndex(0), JKey("b")>>),
     JArray(<<JKey("a"), JKey("zz")>>),
     JArray(<<JKey("zz"), JKey("a")>>),
     JArray(<<JKey("a"), JNull>>)}

\* The error objects upstream can send: with or without path, locations and extensions,
\* and one without message.
RawErrors ==
    {[message |-> "boom"], [path |-> JArray(<<JKey("a")>>)]}
    \cup {[message |-> "bang", path |-> path] : path \in UpstreamPaths}
    \cup {[message |-> "boom", path |-> path,
           locations |-> JArray(<<JIndex(1)>>), extensions |-> JObject(<<>>)] :
             path \in UpstreamPaths}
    \cup {[message |-> "bang", locations |-> JNull, extensions |-> JObject(<<>>)]}

RECURSIVE ErrorArrays(_)
ErrorArrays(len) ==
    IF len = 0 THEN {<<>>}
    ELSE ErrorArrays(len - 1)
         \cup {Append(a, e) : a \in {x \in ErrorArrays(len - 1) : Len(x) = len - 1}, e \in RawErrors}

\* The errors the part can hold before the upstream errors are read.
EarlierErrors == {<<>>, <<UpstreamGraphqlError("earlier", None, <<>>)>>}

InitErrors ==
    /\ root = RootPlanStart.b.root
    /\ parts = RootPlanStart.b.parts
    /\ errors = RootPlanStart.b.errors
    /\ pending = [i \in {RootPlanStart.part.data.id} |-> RootPlanStart.part]
    /\ handoffs = {}
    /\ issued = <<RootPlanStart.part.data.id>>
    /\ last = [op |-> "new_writer", id |-> RootPlanStart.part.data.id]
    /\ part \in {push_errors(RootPlanStart.part, earlier) : earlier \in EarlierErrors}
    /\ entities = <<>>
    /\ plan = <<>>
    /\ handed = <<>>
    /\ visited = None
    /\ strong_count = 1
    /\ upstream_errors \in {Some(JNull)} \cup {Some(JArray(a)) : a \in ErrorArrays(MaxErrors)}
    /\ errors_count = None
    /\ Engine_new
    /\ NoCalls
    /\ NoSubgraphRequest

\* The upstream `errors` value is fed to the errors seed of the part.
DeserializeErrors ==
    /\ upstream_errors.t = "Some"
    /\ errors_count = None
    /\ \E r \in {GraphqlErrorsSeed_deserialize(part, upstream_errors.v)} :
          /\ part' = r.part
          /\ errors_count' = Some(IF r.ok THEN [ok |-> TRUE, count |-> r.count] ELSE [ok |-> FALSE])
    /\ UNCHANGED <<builderVars, entities, plan, handed, visited, strong_count, upstream_errors, engineVars, subgraphVars>>

NextErrors == DeserializeErrors

SpecErrors == InitErrors /\ [][NextErrors]_vars

----------------------------------------------------------------------------
\* The introspection executor

MaxSelection == 3

\* The response keys of the introspection fields a query can select: __typename,
\* __schema, __type, and two aliases of them.
IntrospectionKeys == 2..6

\* The selections of a root plan resolved by introspection, as the response keys of
\* their fields in field order; `{ __typename }` is <<2>>.
RECURSIVE Selections(_)
Selections(len) ==
    IF len = 0 THEN {<<>>}
    ELSE Selections(len - 1)
         \cup UNION {{Append(selection, key) : key \in IntrospectionKeys \ Range(selection)} :
                        selection \in {x \in Selections(len - 1) : Len(x) = len - 1}}

\* IntrospectionWriter::execute: every field of the selection is written from the
\* schema into the slot of the writer.
IntrospectionWriter_execute(p, index, selection) ==
    update_root_object_with(p, index,
        [k \in 1..Len(selection) |-> [edge |-> BoundResponseKey(selection[k]), value |-> Scalar]])

\* IntrospectionExecutor::execute: the part and Ok, or the error.
IntrospectionExecutor_execute(p, selection) ==
    IF next_writer(p).writer.t = "None"
    THEN [part |-> next_writer(p).part, result |-> Err("No objects to update")]
    ELSE [part |-> IntrospectionWriter_execute(next_writer(p).part, next_writer(p).writer.v, selection),
          result |-> Ok("part")]

InitIntrospection ==
    /\ root = RootPlanStart.b.root
    /\ parts = RootPlanStart.b.parts
    /\ errors = RootPlanStart.b.errors
    /\ pending = [i \in {RootPlanStart.part.data.id} |-> RootPlanStart.part]
    /\ handoffs = {}
    /\ issued = <<RootPlanStart.part.data.id>>
    /\ last = [op |-> "new_writer", id |-> RootPlanStart.part.data.id]
    /\ part = RootPlanStart.part
    /\ entities = <<>>
    /\ plan \in Selections(MaxSelection) \ {<<>>}
    /\ handed = <<>>
    /\ visited = None
    /\ strong_count = 1
    /\ NoUpstreamErrors
    /\ Engine_new
    /\ NoCalls
    /\ NoSubgraphRequest

\* The executor of the plan runs on the part reserved for it.
IntrospectionExecute ==
    /\ visited = None
    /\ \E executed \in {IntrospectionExecutor_execute(part, plan)} :
          /\ part' = executed.part
          /\ visited' = Some(executed.result)
    /\ handed' = <<next_writer(part).writer>>
    /\ UNCHANGED <<builderVars, entities, plan, strong_count, sourceVars, engineVars, subgraphVars>>

NextIntrospection == IntrospectionExecute

SpecIntrospection == InitIntrospection /\ [][NextIntrospection]_vars

----------------------------------------------------------------------------
\* The subgraph request of a federation entity executor

MaxRules == 3

\* schema::HeaderValueRef
Forward(name) == [t |-> "Forward", name |-> name]
Static(value) == [t |-> "Static", value |-> value]

\* A header rule of the subgraph: header.name() and header.value().
SubgraphHeader(name, value) == [name |-> name, value |-> value]

\* ExecutionContext::header: the value of the header in the client request, if present.
ctx_header(headers, name) ==
    IF name \in DOMAIN headers THEN Some(headers[name]) ELSE None

\* The headers with a forward rule sending an empty value when its header is absent.
RECURSIVE FetchRequest_headers_empty_value(_, _, _)
FetchRequest_headers_empty_value(rules, headers, k) ==
    IF k > Len(rules) THEN <<>>
    ELSE IF rules[k].value.t = "Forward"
    THEN <<<<rules[k].name,
             IF ctx_header(headers, rules[k].value.name).t = "None" THEN ""
             ELSE ctx_header(headers, rules[k].value.name).v>>>>
         \o FetchRequest_headers_empty_value(rules, headers, k + 1)
    ELSE <<<<rules[k].name, rules[k].value.value>>>>
         \o FetchRequest_headers_empty_value(rules, headers, k + 1)

\* subgraph.headers().filter_map(..).collect(), from rule k on: the `?` on ctx.header
\* drops the rule.
RECURSIVE FetchRequest_headers(_, _, _)
FetchRequest_headers(rules, headers, k) ==
    IF k > Len(rules) THEN <<>>
    ELSE IF rules[k].value.t = "Forward"
    THEN IF ctx_header(headers, rules[k].value.name).t = "None"
         THEN FetchRequest_headers(rules, headers, k + 1)
         ELSE <<<<rules[k].name, ctx_header(headers, rules[k].value.name).v>>>>
              \o FetchRequest_headers(rules, headers, k + 1)
    ELSE <<<<rules[k].name, rules[k].value.value>>>>
         \o FetchRequest_headers(rules, headers, k + 1)

FetchRequest(url, json_body, headers) == [url |-> url, json_body |-> json_body, headers |-> headers]

\* The header rules a subgraph can be configured with.
HeaderRules ==
    {SubgraphHeader(name, value) :
        name \in {"authorization", "x-api-key"},
        value \in {Forward("authorization"), Forward("x-tenant"), Static("secret")}}

RECURSIVE RuleSeqs(_)
RuleSeqs(len) ==
    IF len = 0 THEN {<<>>}
    ELSE RuleSeqs(len - 1)
         \cup {Append(rules, rule) : rules \in {x \in RuleSeqs(len - 1) : Len(x) = len - 1},
                                     rule \in HeaderRules}

\* The headers a client request can carry.
ClientHeaders ==
    UNION {[names -> {"bearer", "acme"}] : names \in SUBSET {"authorization", "x-tenant"}}

InitFetch ==
    /\ root = RootPlanStart.b.root
    /\ parts = RootPlanStart.b.parts
    /\ errors = RootPlanStart.b.errors
    /\ pending = [i \in {RootPlanStart.part.data.id} |-> RootPlanStart.part]
    /\ handoffs = {}
    /\ issued = <<RootPlanStart.part.data.id>>
    /\ last = [op |-> "new_writer", id |-> RootPlanStart.part.data.id]
    /\ part = RootPlanStart.part
    /\ entities = <<>>
    /\ plan = <<>>
    /\ handed = <<>>
    /\ visited = None
    /\ strong_count = 1
    /\ NoUpstreamErrors
    /\ Engine_new
    /\ NoCalls
    /\ subgraph_headers \in RuleSeqs(MaxRules)
    /\ ctx_headers \in ClientHeaders
    /\ fetch_request = None
    /\ upstream_response = None
    /\ status = None

\* FederationEntityExecutor::execute up to the await of the fetch: the request is posted.
Post ==
    /\ fetch_request = None
    /\ fetch_request' = Some(FetchRequest("subgraph.url()", "json_body",
                                          FetchRequest_headers(subgraph_headers, ctx_headers, 1)))
    /\ UNCHANGED <<builderVars, partVars, sourceVars, engineVars,
                   subgraph_headers, ctx_headers, upstream_response, status>>

\* The fetch fails or gives the bytes of the upstream response.
Fetched ==
    /\ fetch_request.t = "Some"
    /\ upstream_response = None
    /\ upstream_response' \in {Err("fetch"), Ok("bytes")}
    /\ UNCHANGED <<builderVars, partVars, sourceVars, engineVars,
                   subgraph_headers, ctx_headers, fetch_request, status>>

NextFetch ==
    \/ Post
    \/ Fetched

SpecFetch == InitFetch /\ [][NextFetch]_vars

----------------------------------------------------------------------------
\* The upstream response: GraphqlResponseSeed

MaxKeys == 3

\* grafbase_tracing::gql_response_status::GraphqlResponseStatus
Success == [t |-> "Success"]
FieldError(count, data_is_null) == [t |-> "FieldError", count |-> count, data_is_null |-> data_is_null]
RequestError(count) == [t |-> "RequestError", count |-> count]

\* The value of the `data` key: JSON null or not, and what the data seed does with it:
\* the number of errors it pushes to the part, and whether it returns Ok.
Data(null, pushed, ok) == [key |-> "data", null |-> null, pushed |-> pushed, ok |-> ok]
\* The value of the `errors` key: whether it deserializes, and into how many errors.
Errors(ok, count) == [key |-> "errors", ok |-> ok, count |-> count]
\* Any other key.
Unknown == [key |-> "unknown"]

has_errors(p) == p.errors # <<>>
ResponsePart_errors_count(p) == Len(p.errors)
replace_errors(p, new_errors) == [p EXCEPT !.errors = new_errors]

\* The error reported whatever the part holds.
report_error_always(p, err_path, message) ==
    push_error(p, GraphqlError(message, Some(err_path)))

report_error_if_no_others(p, err_path, message) ==
    IF ~has_errors(p) THEN push_error(p, GraphqlError(message, Some(err_path))) ELSE p

\* The data seed at work on the value of `data`.
DataSeed_deserialize(p, err_path, value) ==
    [part |-> push_errors(p, [i \in 1..value.pushed |-> GraphqlError("type error", Some(err_path))]),
     ok |-> value.ok]

\* InfaillibleNullableSeed: visit_none and visit_some; returns the part and data_is_null.
InfaillibleNullableSeed(p, err_path, value) ==
    [part |-> IF DataSeed_deserialize(p, err_path, value).ok
              THEN DataSeed_deserialize(p, err_path, value).part
              ELSE report_error_if_no_others(DataSeed_deserialize(p, err_path, value).part,
                                             err_path, "Upstream data error"),
     data_is_null |-> value.null]

\* UpstreamGraphqlErrorsSeed: the errors of the value, for the local `errors`.
UpstreamGraphqlErrorsSeed(err_path, value) ==
    [i \in 1..value.count |-> GraphqlError("Upstream error", Some(err_path))]

\* The status chosen between FieldError and RequestError by data_is_null.
GraphqlResponseStatus_by_data_is_null(count, data_is_present, data_is_null) ==
    IF count > 0
    THEN IF ~data_is_null THEN FieldError(count, data_is_null)
         ELSE RequestError(count)
    ELSE Success

\* The status visit_map returns.
GraphqlResponseStatus(count, data_is_present, data_is_null) ==
    IF count > 0
    THEN IF data_is_present THEN FieldError(count, data_is_null)
         ELSE RequestError(count)
    ELSE Success

\* The locals of visit_map before the first key; self.seed is Some.
visit_map_locals == [seed |-> TRUE, data_is_present |-> FALSE, data_is_null |-> TRUE, errors |-> <<>>]

\* The upstream errors always put after the errors of the part.
store_errors_push(p, local) ==
    IF local.errors # <<>> THEN push_errors(p, local.errors) ELSE p

\* The part once the upstream errors are stored in it.
store_errors(p, local) ==
    IF local.errors # <<>>
    THEN IF local.data_is_null THEN replace_errors(p, local.errors)
         ELSE push_errors(p, local.errors)
    ELSE p

\* visit_map from the k-th key of the map on.
RECURSIVE visit_map(_, _, _, _, _)
visit_map(p, err_path, map, k, local) ==
    IF k > Len(map)
    THEN IF ~local.data_is_present /\ local.errors = <<>>
         THEN [part |-> p, result |-> Err("No data or errors in the response")]
         ELSE [part |-> store_errors(p, local),
               result |-> Ok(GraphqlResponseStatus(ResponsePart_errors_count(store_errors(p, local)),
                                                   local.data_is_present, local.data_is_null))]
    ELSE IF map[k].key = "data"
    THEN IF ~local.seed
         THEN [part |-> p, result |-> Err("data key present multiple times.")]
         ELSE visit_map(InfaillibleNullableSeed(p, err_path, map[k]).part, err_path, map, k + 1,
                        [local EXCEPT !.seed = FALSE,
                                      !.data_is_present = TRUE,
                                      !.data_is_null = InfaillibleNullableSeed(p, err_path, map[k]).data_is_null])
    ELSE IF map[k].key = "errors"
    THEN IF ~map[k].ok
         THEN [part |-> p, result |-> Err("invalid errors")]
         ELSE visit_map(p, err_path, map, k + 1,
                        [local EXCEPT !.errors = @ \o UpstreamGraphqlErrorsSeed(err_path, map[k])])
    ELSE visit_map(p, err_path, map, k + 1, local)

\* Returns the part and the status, if the response deserialized.
ingest_deserializer_into_response(p, root_err_path, map) ==
    IF visit_map(p, root_err_path, map, 1, visit_map_locals).result.ok
    THEN [part |-> visit_map(p, root_err_path, map, 1, visit_map_locals).part,
          status |-> Some(visit_map(p, root_err_path, map, 1, visit_map_locals).result.v)]
    ELSE [part |-> report_error_if_no_others(visit_map(p, root_err_path, map, 1, visit_map_locals).part,
                                             root_err_path, "Error decoding response from upstream"),
          status |-> None]

\* The values an upstream response can hold under its keys.
ResponseEntries ==
    {Data(null, pushed, ok) : null \in BOOLEAN, pushed \in 0..1, ok \in BOOLEAN}
    \cup {Errors(TRUE, count) : count \in 0..MaxErrors}
    \cup {Errors(FALSE, 0), Unknown}

RECURSIVE ResponseMaps(_)
ResponseMaps(len) ==
    IF len = 0 THEN {<<>>}
    ELSE ResponseMaps(len - 1)
         \cup {Append(map, entry) : map \in {x \in ResponseMaps(len - 1) : Len(x) = len - 1},
                                    entry \in ResponseEntries}

InitResponse ==
    /\ root = RootPlanStart.b.root
    /\ parts = RootPlanStart.b.parts
    /\ errors = RootPlanStart.b.errors
    /\ pending = [i \in {RootPlanStart.part.data.id} |-> RootPlanStart.part]
    /\ handoffs = {}
    /\ issued = <<RootPlanStart.part.data.id>>
    /\ last = [op |-> "new_writer", id |-> RootPlanStart.part.data.id]
    /\ part = RootPlanStart.part
    /\ entities = <<>>
    /\ plan = <<>>
    /\ handed = <<>>
    /\ visited = None
    /\ strong_count = 1
    /\ NoUpstreamErrors
    /\ Engine_new
    /\ NoCalls
    /\ subgraph_headers = <<>>
    /\ ctx_headers = <<>>
    /\ fetch_request = None
    /\ upstream_response \in {Some(map) : map \in ResponseMaps(MaxKeys)}
    /\ status = None

\* The bytes of the upstream response are deserialized into the part.
IngestDeserializer ==
    /\ upstream_response.t = "Some"
    /\ status = None
    /\ \E r \in {ingest_deserializer_into_response(part, root_path(part, 0), upstream_response.v)} :
          /\ part' = r.part
          /\ status' = Some(r.status)
    /\ UNCHANGED <<builderVars, entities, plan, handed, visited, strong_count, sourceVars, engineVars,
                   subgraph_headers, ctx_headers, fetch_request, upstream_response>>

NextResponse == IngestDeserializer

SpecResponse == InitResponse /\ [][NextResponse]_vars

----------------------------------------------------------------------------
\* Engine: the operation cache

MaxCallers == 2
MaxRequests == 3

Callers == 1..MaxCallers

\* engine::Request: the query text, the operation name and the variables.
Request(query, operation_name, variables) ==
    [query |-> query, operation_name |-> operation_name, variables |-> variables]

\* The type of the operation a query text gives.
OperationType(query) ==
    IF query = "subscription { s }" THEN "Subscription"
    ELSE IF query = "mutation { m }" THEN "Mutation"
    ELSE "Query"

\* The operation bound for a request: a function of the schema and the query text.
Operation(request) == [query |-> request.query, ty |-> OperationType(request.query)]

\* The query texts: a query and a subscription that parse and bind, a query with a field
\* the schema does not have, and one that does not parse.
Queries == {"{ a }", "mutation { m }", "subscription { s }", "{ zz }", "{ a"}

\* The variables of a request, as coercion tells them apart.
VariableSets == {"coercible", "not coercible"}

Requests ==
    {Request(query, name, "coercible") : query \in Queries, name \in {None, Some("A")}}
    \cup {Request(query, None, variables) : query \in Queries, variables \in VariableSets}

parse_operation(request) ==
    IF request.query = "{ a" THEN Err("parse error") ELSE Ok(request)

Operation_build(unbound_operation) ==
    IF unbound_operation.query = "{ zz }" THEN Err("unknown field")
    ELSE Ok(Operation(unbound_operation))

\* prepare_operation: either step failing is the failure of the whole.
prepare_operation(request) ==
    IF ~parse_operation(request).ok THEN parse_operation(request)
    ELSE Operation_build(parse_operation(request).v)

\* Variables::from_request: the variables coerced against the operation, or the errors
\* of the variables that do not coerce.
Variables_from_request(operation, request) ==
    IF request.variables = "not coercible"
    THEN Err(<<GraphqlError("Variable $x is invalid", None), GraphqlError("Variable $y is invalid", None)>>)
    ELSE Ok(request.variables)

\* Response::from_error and Response::from_errors: a response of errors, without data.
Response_from_errors(errs) == [errors |-> errs]
Response_from_error(error) == Response_from_errors(<<error>>)

bad_request(response) == [t |-> "BadRequest", response |-> response]
PreparedRequest(query, operation, variables) ==
    [t |-> "PreparedRequest", query |-> query, operation |-> operation, variables |-> variables]

\* Engine::execute going on with no operation when preparing it failed.
Engine_execute_unchecked(request, prepared) ==
    IF ~Variables_from_request(prepared, request).ok
    THEN bad_request(Response_from_errors(Variables_from_request(prepared, request).err))
    ELSE PreparedRequest(request.query, prepared, Variables_from_request(prepared, request).v)

\* Engine::execute without the test of the operation type.
Engine_execute_any_type(request, prepared) ==
    IF ~prepared.ok
    THEN bad_request(Response_from_error(GraphqlError(prepared.err, None)))
    ELSE IF ~Variables_from_request(prepared.v, request).ok
    THEN bad_request(Response_from_errors(Variables_from_request(prepared.v, request).err))
    ELSE PreparedRequest(request.query, prepared.v, Variables_from_request(prepared.v, request).v)

\* Engine::execute, from the result of cached_prepare_operation on.
Engine_execute(request, prepared) ==
    IF ~prepared.ok
    THEN bad_request(Response_from_error(GraphqlError(prepared.err, None)))
    ELSE IF ~Variables_from_request(prepared.v, request).ok
    THEN bad_request(Response_from_errors(Variables_from_request(prepared.v, request).err))
    ELSE IF prepared.v.ty = "Subscription"
    THEN bad_request(Response_from_error(
             GraphqlError("Subscriptions are only suported on streaming transports", None)))
    ELSE PreparedRequest(request.query, prepared.v, Variables_from_request(prepared.v, request).v)

\* A lookup that finds nothing.
get_missing(cache, query) == None

\* A lookup that takes any entry of the cache for the entry of the text.
get_any(cache, query) ==
    IF DOMAIN cache = {} THEN None ELSE Some(cache[CHOOSE text \in DOMAIN cache : TRUE])

\* FnvHashMap::get(..).cloned()
get(cache, query) == IF query \in DOMAIN cache THEN Some(cache[query]) ELSE None

\* A caller that is not inside cached_prepare_operation.
Idle == [pc |-> "idle"]

InitEngine ==
    /\ root = ResponseBuilder_new.root
    /\ parts = ResponseBuilder_new.parts
    /\ errors = ResponseBuilder_new.errors
    /\ pending = <<>>
    /\ handoffs = {}
    /\ issued = <<>>
    /\ last = [op |-> "new"]
    /\ part = IdlePart
    /\ entities = <<>>
    /\ plan = <<>>
    /\ handed = <<>>
    /\ visited = None
    /\ strong_count = 1
    /\ NoUpstreamErrors
    /\ Engine_new
    /\ calls = [c \in Callers |-> Idle]
    /\ served = 0
    /\ stream = None
    /\ NoSubgraphRequest

\* A caller enters cached_prepare_operation and asks for the read lock.
Call(c, request) ==
    /\ calls[c].pc = "idle"
    /\ served < MaxRequests
    /\ calls' = [calls EXCEPT ![c] = [pc |-> "read", request |-> request, hit |-> FALSE,
                                      parsed |-> FALSE, wrote |-> FALSE,
                                      operation |-> None, result |-> None,
                                      outcome |-> None]]
    /\ served' = served + 1
    /\ UNCHANGED <<op_cache, lock>>

\* op_cache.read().await
AcquireRead(c) ==
    /\ calls[c].pc = "read"
    /\ lock.writer = None
    /\ lock' = [lock EXCEPT !.readers = @ \cup {c}]
    /\ calls' = [calls EXCEPT ![c].pc = "get"]
    /\ UNCHANGED <<op_cache, served>>

\* The lookup with the read guard kept on a miss.
Get_keep_guard(c) ==
    /\ calls[c].pc = "get"
    /\ \E found \in {get(op_cache, calls[c].request.query)} :
          /\ calls' = IF found.t = "Some"
                      THEN [calls EXCEPT ![c].pc = "done", ![c].hit = TRUE, ![c].result = Ok(found.v)]
                      ELSE [calls EXCEPT ![c].pc = "prepare"]
          /\ lock' = IF found.t = "Some" THEN [lock EXCEPT !.readers = @ \ {c}] ELSE lock
    /\ UNCHANGED <<op_cache, served>>

\* guard.get(&request.query): a hit returns the stored operation, a miss drops the guard.
Get(c) ==
    /\ calls[c].pc = "get"
    /\ \E found \in {get(op_cache, calls[c].request.query)} :
          calls' = IF found.t = "Some"
                   THEN [calls EXCEPT ![c].pc = "done", ![c].hit = TRUE, ![c].result = Ok(found.v)]
                   ELSE [calls EXCEPT ![c].pc = "prepare"]
    /\ lock' = [lock EXCEPT !.readers = @ \ {c}]
    /\ UNCHANGED <<op_cache, served>>

\* self.prepare_operation(request)?
Prepare(c) ==
    /\ calls[c].pc = "prepare"
    /\ \E prepared \in {prepare_operation(calls[c].request)} :
          calls' = IF prepared.ok
                   THEN [calls EXCEPT ![c].pc = "write", ![c].parsed = TRUE,
                                      ![c].operation = Some(prepared.v)]
                   ELSE [calls EXCEPT ![c].pc = "done", ![c].parsed = TRUE,
                                      ![c].result = prepared]
    /\ UNCHANGED <<op_cache, lock, served>>

\* op_cache.write().await
AcquireWrite(c) ==
    /\ calls[c].pc = "write"
    /\ lock.writer = None
    /\ lock.readers = {}
    /\ lock' = [lock EXCEPT !.writer = Some(c)]
    /\ calls' = [calls EXCEPT ![c].pc = "insert", ![c].wrote = TRUE]
    /\ UNCHANGED <<op_cache, served>>

\* .insert(request.query.clone(), Arc::clone(&operation)), and the write guard is dropped.
Insert(c) ==
    /\ calls[c].pc = "insert"
    /\ op_cache' = insert(op_cache, calls[c].request.query, calls[c].operation.v)
    /\ lock' = [lock EXCEPT !.writer = None]
    /\ calls' = [calls EXCEPT ![c].pc = "done", ![c].result = Ok(calls[c].operation.v)]
    /\ UNCHANGED served

\* Engine::execute goes on with what cached_prepare_operation returned.
Execute(c) ==
    /\ calls[c].pc = "done"
    /\ calls' = [calls EXCEPT ![c].pc = "executed",
                              ![c].outcome = Some(Engine_execute(calls[c].request, calls[c].result))]
    /\ UNCHANGED <<op_cache, lock, served>>

\* The caller has the PreparedExecution.
Return(c) ==
    /\ calls[c].pc = "executed"
    /\ calls' = [calls EXCEPT ![c] = Idle]
    /\ UNCHANGED <<op_cache, lock, served>>

NextEngine ==
    /\ \E c \in Callers :
          \/ \E request \in Requests : Call(c, request)
          \/ AcquireRead(c)
          \/ Get(c)
          \/ Prepare(c)
          \/ AcquireWrite(c)
          \/ Insert(c)
          \/ Execute(c)
          \/ Return(c)
    /\ UNCHANGED <<builderVars, partVars, sourceVars, subgraphVars, stream>>

SpecEngine == InitEngine /\ [][NextEngine]_vars

\* The tasks are polled until they end, and the lock of the cache serves its waiters in
\* the order they came (tokio::sync::RwLock), so no waiter is passed over for ever.
FairEngine ==
    \A c \in Callers :
        /\ SF_vars(AcquireRead(c) /\ UNCHANGED <<builderVars, partVars, sourceVars, subgraphVars, stream>>)
        /\ SF_vars(AcquireWrite(c) /\ UNCHANGED <<builderVars, partVars, sourceVars, subgraphVars, stream>>)
        /\ WF_vars(Get(c) /\ UNCHANGED <<builderVars, partVars, sourceVars, subgraphVars, stream>>)
        /\ WF_vars(Prepare(c) /\ UNCHANGED <<builderVars, partVars, sourceVars, subgraphVars, stream>>)
        /\ WF_vars(Insert(c) /\ UNCHANGED <<builderVars, partVars, sourceVars, subgraphVars, stream>>)

SpecEngineFair == SpecEngine /\ FairEngine

----------------------------------------------------------------------------
\* Engine::execute_stream

\* mpsc::channel(2)
ChannelBuffer == 2

\* The messages a channel holds at most: its buffer and one slot for its sender.
ChannelCapacity == ChannelBuffer + 1

MaxEvents == 5

\* The channel with its one sender: the queue, whether the sender is parked, and
\* whether the sender was dropped.
channel == [queue |-> <<>>, parked |-> FALSE, dropped |-> FALSE]

\* A send that never parks the sender.
channel_send_unbounded(ch, message) == [ch EXCEPT !.queue = Append(@, message)]

\* Sender::send once the sender is not parked: the message is queued, and the sender is
\* parked when the queue then holds more than the buffer.
channel_send(ch, message) ==
    [ch EXCEPT !.queue = Append(@, message),
               !.parked = Len(ch.queue) + 1 > ChannelBuffer]

\* Receiver::next with a message queued: the message is taken and the sender unparked.
channel_recv(ch) == [ch EXCEPT !.queue = Tail(@), !.parked = FALSE]

\* The response of a finished execution, and the n-th response of a subscription.
ExecutedResponse == [data |-> "data"]
EventResponse(n) == [data |-> "event", n |-> n]

\* prepare_coordinator: the coordinator of the operation, or the response of the failure.
prepare_coordinator(request) ==
    IF ~prepare_operation(request).ok
    THEN Err(Response_from_error(GraphqlError(prepare_operation(request).err, None)))
    ELSE IF ~Variables_from_request(prepare_operation(request).v, request).ok
    THEN Err(Response_from_errors(Variables_from_request(prepare_operation(request).v, request).err))
    ELSE Ok(prepare_operation(request).v)

\* The caches Engine::execute can have left when a stream is asked for: the texts that
\* prepare, each with its operation.
ServedCaches ==
    {[text \in texts |-> Operation(Request(text, None, "coercible"))] :
        texts \in SUBSET {text \in Queries : prepare_operation(Request(text, None, "coercible")).ok}}

StreamRequests ==
    {Request(query, None, variables) :
        query \in Queries \cup {"mutation { m }"}, variables \in VariableSets}

InitStream ==
    /\ root = ResponseBuilder_new.root
    /\ parts = ResponseBuilder_new.parts
    /\ errors = ResponseBuilder_new.errors
    /\ pending = <<>>
    /\ handoffs = {}
    /\ issued = <<>>
    /\ last = [op |-> "new"]
    /\ part = IdlePart
    /\ entities = <<>>
    /\ plan = <<>>
    /\ handed = <<>>
    /\ visited = None
    /\ strong_count = 1
    /\ NoUpstreamErrors
    /\ op_cache \in ServedCaches
    /\ lock = [readers |-> {}, writer |-> None]
    /\ calls = <<>>
    /\ served = 0
    /\ NoSubgraphRequest
    /\ \E request \in StreamRequests, events \in 0..MaxEvents :
          stream = [pc |-> "prepare", request |-> request, events |-> events, sent |-> 0,
                    sending |-> None, channel |-> channel, yielded |-> <<>>, ended |-> FALSE]

\* The step with the operation looked up in the cache and stored there when missing.
PrepareCoordinator_cached ==
    /\ stream.pc = "prepare"
    /\ \E coordinator \in {prepare_coordinator(stream.request)} :
          stream' = IF ~coordinator.ok
                    THEN [stream EXCEPT !.pc = "send", !.sending = Some(coordinator.err)]
                    ELSE IF coordinator.v.ty \in {"Query", "Mutation"}
                    THEN [stream EXCEPT !.pc = "send", !.sending = Some(ExecutedResponse)]
                    ELSE [stream EXCEPT !.pc = "subscription"]
    /\ op_cache' = IF get(op_cache, stream.request.query).t = "None"
                       /\ prepare_operation(stream.request).ok
                    THEN insert(op_cache, stream.request.query, prepare_operation(stream.request).v)
                    ELSE op_cache
    /\ UNCHANGED <<builderVars, partVars, sourceVars, subgraphVars, lock, calls, served>>

\* engine.prepare_coordinator(request, headers), and the execution of a query or a
\* mutation: the producer has one response to send, or goes on to the subscription.
PrepareCoordinator ==
    /\ stream.pc = "prepare"
    /\ \E coordinator \in {prepare_coordinator(stream.request)} :
          stream' = IF ~coordinator.ok
                    THEN [stream EXCEPT !.pc = "send", !.sending = Some(coordinator.err)]
                    ELSE IF coordinator.v.ty \in {"Query", "Mutation"}
                    THEN [stream EXCEPT !.pc = "send", !.sending = Some(ExecutedResponse)]
                    ELSE [stream EXCEPT !.pc = "subscription"]
    /\ UNCHANGED <<builderVars, partVars, sourceVars, subgraphVars, op_cache, lock, calls, served>>

\* sender.send(response).await.ok(); return: the task ends and drops the sender.
SendAndReturn ==
    /\ stream.pc = "send"
    /\ ~stream.channel.parked
    /\ stream' = [stream EXCEPT !.pc = "returned", !.sending = None,
                                !.channel = [channel_send(stream.channel, stream.sending.v)
                                                EXCEPT !.dropped = TRUE]]
    /\ UNCHANGED <<builderVars, partVars, sourceVars, subgraphVars, op_cache, lock, calls, served>>

\* coordinator.execute_subscription(sender): the next response of the subscription is
\* sent once the sender is not parked.
SubscriptionSend ==
    /\ stream.pc = "subscription"
    /\ stream.sent < stream.events
    /\ ~stream.channel.parked
    /\ stream' = [stream EXCEPT !.sent = @ + 1,
                                !.channel = channel_send(@, EventResponse(stream.sent + 1))]
    /\ UNCHANGED <<builderVars, partVars, sourceVars, subgraphVars, op_cache, lock, calls, served>>

\* The subscription is over: the task ends and drops the sender.
SubscriptionEnd ==
    /\ stream.pc = "subscription"
    /\ stream.sent = stream.events
    /\ stream' = [stream EXCEPT !.pc = "returned", !.channel.dropped = TRUE]
    /\ UNCHANGED <<builderVars, partVars, sourceVars, subgraphVars, op_cache, lock, calls, served>>

\* The consumer takes the next response of the stream.
Receive ==
    /\ stream # None
    /\ stream.channel.queue # <<>>
    /\ stream' = [stream EXCEPT !.yielded = Append(@, stream.channel.queue[1]),
                                !.channel = channel_recv(@)]
    /\ UNCHANGED <<builderVars, partVars, sourceVars, subgraphVars, op_cache, lock, calls, served>>

\* The consumer finds the channel empty with its sender dropped: the stream ends.
EndOfStream ==
    /\ stream # None
    /\ ~stream.ended
    /\ stream.channel.queue = <<>>
    /\ stream.channel.dropped
    /\ stream' = [stream EXCEPT !.ended = TRUE]
    /\ UNCHANGED <<builderVars, partVars, sourceVars, subgraphVars, op_cache, lock, calls, served>>

NextStream ==
    \/ PrepareCoordinator
    \/ SendAndReturn
    \/ SubscriptionSend
    \/ SubscriptionEnd
    \/ Receive
    \/ EndOfStream

SpecStream == InitStream /\ [][NextStream]_vars

\* The producer task is polled until it ends, and the consumer polls the stream until
\* it ends.
SpecStreamFair == SpecStream /\ WF_vars(NextStream)

----------------------------------------------------------------------------
\* The paths that can be handed to propagate_error in a builder state (a boundary
\* object's path, a queued error path).

\* An edge that resolves nowhere: no part writes the key 0, and no list has ListLen + 1
\* items.
StrayEdges == {BoundResponseKey(0), Index(0), Index(ListLen)}

\* The paths that resolve from the node `previous`.
RECURSIVE PathsFrom(_, _)
PathsFrom(b, previous) ==
    LET edges == IF previous.t = "Left"
                 THEN {f.edge : f \in Range(ObjectAt(b, previous.id))}
                 ELSE {Index(i) : i \in 0..(previous.id.length - 1)}
        below(e) == LET value == resolve_edge(b, previous, e).v.value
                    IN IF value.t = "Object"
                       THEN PathsFrom(b, Left(ResponseObjectId(value.part_id, value.index)))
                       ELSE IF value.t = "List"
                       THEN PathsFrom(b, Right(ResponseListId(value.part_id, value.offset, value.length)))
                       ELSE {<<>>}
    IN {<<>>} \cup UNION {{<<e>> \o q : q \in below(e)} : e \in edges}

\* The resolving paths, and each of them followed by one stray edge.
InputPaths(b) ==
    LET resolving == PathsFrom(b, Left(ResponseObjectId(0, 0)))
    IN resolving \cup {q \o <<e>> : q \in resolving, e \in StrayEdges}

\* The paths of the boundary objects handed off so far, and of their fields.
HandoffPaths ==
    LET known == UNION {{r.path : r \in Range(h.refs)} : h \in handoffs}
    IN known \cup {q \o <<BoundResponseKey(k)>> : q \in known, k \in 1..MaxParts}

Paths == InputPaths(Builder) \cup HandoffPaths

----------------------------------------------------------------------------
\* Vocabulary of the properties

Max(S) == CHOOSE x \in S : \A y \in S : x >= y

\* The values met along a path while its edges resolve, each with its ResponseValueId.
RECURSIVE Trail(_, _, _, _)
Trail(b, path, i, previous) ==
    IF i > Len(path) THEN <<>>
    ELSE LET r == resolve_edge(b, previous, path[i])
         IN IF r.t = "None" THEN <<>>
            ELSE <<r.v>> \o
                 (IF r.v.value.t = "Object"
                  THEN Trail(b, path, i + 1, Left(ResponseObjectId(r.v.value.part_id, r.v.value.index)))
                  ELSE IF r.v.value.t = "List"
                  THEN Trail(b, path, i + 1,
                             Right(ResponseListId(r.v.value.part_id, r.v.value.offset, r.v.value.length)))
                  ELSE <<>>)

TrailOf(b, path) == Trail(b, path, 1, Left(ResponseObjectId(0, 0)))

\* Every edge of the path resolves and no value met is Null.
FullyResolves(b, path) ==
    /\ Len(TrailOf(b, path)) = Len(path)
    /\ \A k \in 1..Len(path) : TrailOf(b, path)[k].value.t # "Null"

\* The walk along the path meets a Null value.
MeetsNull(b, path) == \E k \in 1..Len(TrailOf(b, path)) : TrailOf(b, path)[k].value.t = "Null"

\* The positions on the path of the Objects and Lists flagged nullable.
NullablesOn(b, path) ==
    {k \in 1..Len(TrailOf(b, path)) :
        /\ TrailOf(b, path)[k].value.t \in {"Object", "List"}
        /\ TrailOf(b, path)[k].value.nullable}

\* The Error slots of the part ingested last, as indices into its boundary objects.
ErrorSlots(p) == {k \in 1..Len(p.updates) : p.updates[k].t = "Error"}

----------------------------------------------------------------------------
\* C1: propagate_error(path), with the root present, every edge resolving and no Null
\* on the path, replaces by Null exactly the deepest nullable Object or List on the
\* path; with no nullable Object or List on the path (the empty path included) it sets
\* the root to None and changes no value.
C1_DeepestNullable ==
    \A path \in Paths :
        (root.t = "Some" /\ FullyResolves(Builder, path)) =>
            LET on == NullablesOn(Builder, path)
                after == propagate_error(Builder, path)
            IN IF on # {}
               THEN after = set_value(Builder, TrailOf(Builder, path)[Max(on)].id, Null)
               ELSE after = [Builder EXCEPT !.root = None]

\* An ingest whose only slot is Error nulled the deepest nullable value of the boundary
\* object's path, below another nullable one.
C1_Witness ==
    /\ last.op = "ingest"
    /\ ErrorSlots(last.part) = {1}
    /\ LET path == last.part.root_response_objects[1].path
           on == NullablesOn(last.before, path)
       IN /\ FullyResolves(last.before, path)
          /\ Cardinality(on) >= 2
          /\ TrailOf(Builder, path)[Max(on)].value = Null
          /\ root.t = "Some"

\* C2: propagate_error is idempotent: applied twice in a row with the same path it
\* gives the same root and the same parts as applied once.
C2_Idempotent ==
    \A path \in Paths :
        propagate_error(propagate_error(Builder, path), path) = propagate_error(Builder, path)

\* The path of an Error slot of the part ingested last had already been propagated for
\* a sibling part, and had nulled a value then.
C2_Witness ==
    /\ last.op = "ingest"
    /\ \E k \in ErrorSlots(last.part) :
          LET path == last.part.root_response_objects[k].path
          IN /\ MeetsNull(last.before, path)
             /\ \E i \in 1..Len(last.before.errors) :
                   /\ Len(last.before.errors[i].path.v) = Len(path) + 1
                   /\ SubSeq(last.before.errors[i].path.v, 1, Len(path)) = path
    /\ root.t = "Some"

\* C3: propagate_error changes nothing when the root is already None or when the walk
\* meets a Null value; a root that is None stays None.
C3_NoOp ==
    /\ [](\A path \in Paths :
            (root.t = "None" \/ MeetsNull(Builder, path)) =>
                propagate_error(Builder, path) = Builder)
    /\ [][root.t = "None" => root'.t = "None"]_vars

\* A part with an Error slot was ingested while the root was None.
C3_Witness ==
    /\ last.op = "ingest"
    /\ ErrorSlots(last.part) # {}
    /\ last.before.root.t = "None"
    /\ root.t = "None"

----------------------------------------------------------------------------
\* The response tree: what is reachable from the root, without ids and nullable flags.
RECURSIVE TreeOf(_, _)
TreeOf(b, value) ==
    IF value.t = "Object"
    THEN [t |-> "Object",
          fields |-> {<<f.edge, TreeOf(b, f.value)>> :
                         f \in Range(ObjectAt(b, ResponseObjectId(value.part_id, value.index)))}]
    ELSE IF value.t = "List"
    THEN [t |-> "List",
          items |-> [i \in 1..value.length |->
                        TreeOf(b, ListAt(b, ResponseListId(value.part_id, value.offset, value.length))[i])]]
    ELSE value

ResponseTree(b) ==
    IF b.root.t = "None" THEN None
    ELSE TreeOf(b, Object(FALSE, b.root.id.part_id, b.root.id.index))

\* The pairs of reserved parts that were reserved with the same boundary objects.
Siblings ==
    {ij \in (DOMAIN pending) \X (DOMAIN pending) :
        /\ ij[1] < ij[2]
        /\ pending[ij[1]].root_response_objects = pending[ij[2]].root_response_objects}

\* C4: whatever two sibling parts hold, ingesting them in either order gives the same
\* response tree.
C4_SiblingOrder ==
    \A ij \in Siblings :
        \A pi \in ExecutorOutputs(pending[ij[1]]), pj \in ExecutorOutputs(pending[ij[2]]) :
            ResponseTree(ingest(ingest(Builder, pi).b, pj).b)
                = ResponseTree(ingest(ingest(Builder, pj).b, pi).b)

\* Two sibling parts were ingested with an Error slot each: the first nulled its
\* boundary object (the first item of a list), the second nulled the list above it.
C4_Witness ==
    /\ last.op = "ingest"
    /\ Len(last.part.root_response_objects) = 2
    /\ 2 \in ErrorSlots(last.part)
    /\ LET p1 == last.part.root_response_objects[1].path
           p2 == last.part.root_response_objects[2].path
       IN /\ Len(p1) = 2
          /\ \E i \in 1..Len(last.before.errors) :
                /\ Len(last.before.errors[i].path.v) = Len(p1) + 1
                /\ SubSeq(last.before.errors[i].path.v, 1, Len(p1)) = p1
          /\ Len(TrailOf(last.before, p1)) = 2
          /\ TrailOf(last.before, p1)[2].value = Null
          /\ FullyResolves(last.before, p2)
          /\ TrailOf(Builder, p2)[1].value = Null
    /\ root.t = "Some"

----------------------------------------------------------------------------
\* A second part for the id of a slot, as a caller holding one could hand it to ingest.
Duplicates(id) ==
    {ResponsePart_new(ResponseDataPart_new(id), <<>>, id, 0),
     ResponsePart_new(push_object(ResponseDataPart_new(id), <<>>).data, <<>>, id, 0)}

\* C5: ingest proceeds only on a slot that holds no object and no list, and the slot
\* then holds exactly the delivered data; on a slot that holds data it aborts with
\* 'Part already has data' and leaves the builder as it was.
C5_IngestIntoEmpty ==
    /\ [][(last'.op = "ingest" /\ last'.id \in DOMAIN pending) =>
             (is_empty(parts[last'.id + 1]) /\ parts'[last'.id + 1] = last'.part.data)]_vars
    /\ [](\A i \in 1..Len(parts) :
            ~is_empty(parts[i]) =>
                \A p \in Duplicates(i - 1) :
                    /\ ingest(Builder, p).panic = "Part already has data"
                    /\ ingest(Builder, p).b = Builder)

\* A part that delivered objects and a list was ingested.
C5_Witness ==
    /\ last.op = "ingest"
    /\ last.part.data.objects # <<>>
    /\ last.part.data.lists # <<>>
    /\ parts[last.id + 1] = last.part.data

\* C6: the part at position i has id i; every new_writer call appended one empty part
\* and returned the next id, so no id was returned twice; part 0 holds the root object.
C6_PartIds ==
    /\ \A i \in 1..Len(parts) : parts[i].id = i - 1
    /\ Len(parts) = Len(issued) + 1
    /\ \A k \in 1..Len(issued) : issued[k] = k
    /\ \A j, k \in 1..Len(issued) : j # k => issued[j] # issued[k]
    /\ \A id \in DOMAIN pending : pending[id].data.id = id /\ is_empty(pending[id].data)
    /\ parts[1].objects # <<>>
    /\ (last.op = "new_writer" => (last.id = Len(parts) - 1 /\ is_empty(parts[Len(parts)])))

\* Three parts were reserved, and one of them ingested after the last reservation.
C6_Witness ==
    /\ Len(issued) >= 3
    /\ last.op = "ingest"
    /\ last.id < Len(issued)
    /\ ~is_empty(parts[last.id + 1])

\* The value names a part that exists and is ingested, within the part's objects or
\* lists, and so does every value below it.
RECURSIVE ValidValue(_, _)
ValidValue(b, value) ==
    IF value.t = "Object"
    THEN /\ value.part_id + 1 <= Len(b.parts)
         /\ value.part_id \notin DOMAIN pending
         /\ value.index < Len(b.parts[value.part_id + 1].objects)
         /\ \A f \in Range(b.parts[value.part_id + 1].objects[value.index + 1]) :
                ValidValue(b, f.value)
    ELSE IF value.t = "List"
    THEN /\ value.part_id + 1 <= Len(b.parts)
         /\ value.part_id \notin DOMAIN pending
         /\ value.offset + value.length <= Len(b.parts[value.part_id + 1].lists)
         /\ \A i \in 1..value.length :
                ValidValue(b, b.parts[value.part_id + 1].lists[value.offset + i])
    ELSE TRUE

\* C7: every Object or List reachable from the root names an ingested part and is
\* within its objects or lists.
C7_ReachableValid ==
    root.t = "Some" => ValidValue(Builder, Object(FALSE, root.id.part_id, root.id.index))

\* An object of a child's part is reachable through a list item of its parent's part,
\* while another part is still only reserved.
C7_Witness ==
    /\ root.t = "Some"
    /\ pending # <<>>
    /\ \E path \in InputPaths(Builder) :
          /\ Len(path) >= 3
          /\ FullyResolves(Builder, path)
          /\ TrailOf(Builder, path)[Len(path)].value.t = "Object"
          /\ TrailOf(Builder, path)[Len(path)].value.part_id >= 2

\* The object of a reference is stored in an ingested part.
Stored(ref) ==
    /\ ref.id.part_id \notin DOMAIN pending
    /\ ref.id.part_id + 1 <= Len(parts)
    /\ ref.id.index < Len(parts[ref.id.part_id + 1].objects)

\* C8: a boundary is handed off only by the ingest of the part that wrote it, once the
\* part's data is stored, its errors appended, its slots applied and its error paths
\* propagated; the boundary objects a reserved part reads are all stored.
C8_HandoffAfterIngest ==
    /\ \A h \in handoffs : h.id \notin DOMAIN pending /\ \A k \in 1..Len(h.refs) : Stored(h.refs[k])
    /\ \A id \in DOMAIN pending :
          \A k \in 1..Len(pending[id].root_response_objects) :
              Stored(pending[id].root_response_objects[k])
    /\ (last.op = "ingest" =>
          /\ Range(last.part.plan_boundaries) \subseteq handoffs
          /\ \A h \in handoffs \ Range(last.part.plan_boundaries) : h.id # last.id
          /\ parts[last.id + 1] = last.part.data
          /\ errors = last.before.errors \o last.part.errors
          /\ \A k \in 1..Len(last.part.updates) :
                LET ref == last.part.root_response_objects[k]
                IN IF last.part.updates[k].t = "Fields"
                   THEN Range(last.part.updates[k].fields) \subseteq Range(ObjectAt(Builder, ref.id))
                   ELSE root.t = "None" \/ MeetsNull(Builder, ref.path))

\* A part was reserved with the boundary objects its parent plan's ingest handed off.
C8_Witness ==
    /\ last.op = "new_writer"
    /\ Len(pending[last.id].root_response_objects) = 2
    /\ pending[last.id].root_response_objects[1].id.part_id >= 1
    /\ \E h \in handoffs : h.refs = pending[last.id].root_response_objects

----------------------------------------------------------------------------
\* The slot the i-th element of the array is written to when the writer of the i-th
\* boundary object is handed to its seed.
SlotOf(i) ==
    LET reserved == [part EXCEPT !.updates =
                        [k \in 1..Len(part.root_response_objects) |-> Reserved]]
    IN UpdateSeed_deserialize(reserved, i - 1, plan, entities[i]).updates[i]

\* The elements of the array that have a boundary object.
Expected ==
    {i \in 1..Len(entities) : i <= Len(part.root_response_objects) /\ entities[i] # Truncated}

\* C9: on a part with n boundary objects the k-th next_writer call hands out the writer
\* of slot k - 1 for k <= n and None afterwards; once visit_seq has run, the i-th
\* element of the array is written to the slot of the i-th boundary object.
C9_OneWriterPerBoundaryObject ==
    /\ \A k \in 1..Len(handed) :
          handed[k] = IF k <= Len(part.root_response_objects) THEN Some(k - 1) ELSE None
    /\ visited.t = "Some" =>
          \A i \in Expected : i <= Len(part.updates) /\ part.updates[i].t = SlotOf(i).t

\* C10: with more elements in the array than boundary objects, visit_seq appends exactly
\* one 'Received more entities than expected' error, consumes every element, gives no
\* slot to an extra element, and the slots of the expected elements hold what was
\* written for them.
C10_ExcessEntities ==
    (/\ visited.t = "Some"
     /\ Len(entities) > Len(part.root_response_objects)
     /\ Truncated \notin Range(entities)) =>
        /\ Cardinality({k \in 1..Len(part.errors) :
                           part.errors[k].message = "Received more entities than expected"}) = 1
        /\ visited.v.consumed = Len(entities)
        /\ visited.v.result = "Ok"
        /\ Len(part.updates) = Len(part.root_response_objects)
        /\ \A i \in Expected : part.updates[i].t = SlotOf(i).t

\* C11: with fewer elements in the array than boundary objects, visit_seq succeeds, the
\* elements received are written to the slots of the first boundary objects, the other
\* boundary objects get no fields, no excess error is recorded, and ingest of the part
\* completes.
C11_FewerEntities ==
    (/\ visited.t = "Some"
     /\ Len(entities) < Len(part.root_response_objects)
     /\ Truncated \notin Range(entities)) =>
        /\ visited.v.result = "Ok"
        /\ \A i \in Expected : i <= Len(part.updates) /\ part.updates[i].t = SlotOf(i).t
        /\ \A i \in (Len(entities) + 1)..Len(part.updates) : part.updates[i].t # "Fields"
        /\ \A k \in 1..Len(part.errors) :
              part.errors[k].message # "Received more entities than expected"
        /\ (part.data.id \in DOMAIN pending => ingest(Builder, part).panic = "none")

----------------------------------------------------------------------------
\* One value fed to the UpdateSeed of the only writer of a part.

\* The required fields of a selection set, as positions in field order.
Required(fields) == {k \in 1..Len(fields) : is_required(fields[k].wrapping)}

\* The value has been fed to the seed.
Fed == visited.t = "Some"

\* The part was ingested after the value was fed.
Ingested == Fed /\ last.op = "ingest" /\ last.part = part

\* The boundary object of the writer.
BoundaryObject == part.root_response_objects[1]

\* The missing-required-field error of the k-th field of the plan.
MissingAt(k) ==
    GraphqlError("Missing required field", Some(BoundaryObject.path \o <<plan[k].edge>>))

\* C12 as stated: for a JSON null every required field of the plan's root selection set
\* has its own missing-required-field error at its path, and the slot is marked Error.
C12_EveryRequiredField ==
    (Fed /\ entities[1] = JNull) =>
        /\ \A k \in Required(plan) : \E e \in 1..Len(part.errors) : part.errors[e] = MissingAt(k)
        /\ (Required(plan) # {} => part.updates[1] = Error)

\* C12: for a JSON null and a root selection set with a required field, the seed records
\* exactly one missing-required-field error, at the path of the first required field in
\* field order, and marks the slot Error.
C12_FirstRequiredField ==
    (Fed /\ entities[1] = JNull /\ Required(plan) # {}) =>
        /\ part.errors = <<MissingAt(Min(Required(plan)))>>
        /\ part.updates[1] = Error

C12_Witness ==
    /\ Fed
    /\ entities[1] = JNull
    /\ Cardinality(Required(plan)) = 2
    /\ part.updates[1] = Error

NullFields == [k \in 1..Len(plan) |-> [edge |-> plan[k].edge, value |-> Null]]

\* C14: for a JSON null and a root selection set without required field, the slot is
\* Fields with one (edge, Null) pair per field in field order and no error is recorded;
\* after ingest the boundary object has those fields as Null, and no value, the root or
\* the errors of the builder are changed otherwise.
C14_NullAllNullable ==
    (Fed /\ entities[1] = JNull /\ Required(plan) = {}) =>
        /\ part.updates[1] = Fields(NullFields)
        /\ part.errors = <<>>
        /\ Ingested =>
              /\ root = last.before.root
              /\ errors = last.before.errors
              /\ ObjectAt(Builder, BoundaryObject.id) =
                     ObjectAt(last.before, BoundaryObject.id) \o NullFields
              /\ \A i \in 1..Len(parts) :
                    /\ parts[i].lists = last.before.parts[i].lists
                    /\ \A o \in 1..Len(parts[i].objects) :
                          ResponseObjectId(i - 1, o - 1) # BoundaryObject.id =>
                              parts[i].objects[o] = last.before.parts[i].objects[o]

C14_Witness ==
    /\ Ingested
    /\ entities[1] = JNull
    /\ Len(plan) = 2
    /\ Required(plan) = {}
    /\ BoundaryObject.path # <<>>
    /\ part.updates[1] = Fields(NullFields)
    /\ SubSeq(ObjectAt(Builder, BoundaryObject.id),
              Len(ObjectAt(last.before, BoundaryObject.id)) + 1,
              Len(ObjectAt(Builder, BoundaryObject.id))) = NullFields

----------------------------------------------------------------------------
\* The first failure of a value against a selection set, read off the value and the
\* types alone: the edges from the boundary object to the innermost field whose seed
\* fails, and the value that seed rejected.

Failure(path, value) == Some([path |-> path, value |-> value])

RECURSIVE FieldFailure(_, _, _)
RECURSIVE EntriesFailure(_, _, _)
RECURSIVE ItemsFailure(_, _, _, _)

\* The fields of the selection set that no entry of the object gives.
Missing(fields, entries) ==
    {k \in 1..Len(fields) : \A e \in 1..Len(entries) : entries[e].key # fields[k].edge.n}

FieldFailure(field, wrapping, value) ==
    IF wrapping.list_wrapping # <<>>
    THEN IF value = JNull
         THEN IF is_required(wrapping) THEN Failure(<<field.edge>>, value) ELSE None
         ELSE IF value.t # "array" THEN Failure(<<field.edge>>, value)
         ELSE ItemsFailure(field, [wrapping EXCEPT !.list_wrapping = SubSeq(@, 1, Len(@) - 1)],
                           value.items, 1)
    ELSE IF value = JNull
    THEN IF wrapping.inner_is_required THEN Failure(<<field.edge>>, value) ELSE None
    ELSE IF field.ty.t = "Scalar"
    THEN IF value = JString THEN None ELSE Failure(<<field.edge>>, value)
    ELSE IF value.t # "object" THEN Failure(<<field.edge>>, value)
    ELSE Bind(EntriesFailure(field.ty.fields, value.entries, 1),
              LAMBDA nested :
                  IF nested.t = "Some" THEN Failure(<<field.edge>> \o nested.v.path, nested.v.value)
                  ELSE IF Missing(field.ty.fields, value.entries) \cap Required(field.ty.fields) # {}
                  THEN Failure(<<field.edge>>, value)
                  ELSE None)

EntriesFailure(fields, entries, e) ==
    IF e > Len(entries) THEN None
    ELSE LET expecting == {k \in 1..Len(fields) : fields[k].edge.n = entries[e].key}
         IN IF expecting = {} THEN EntriesFailure(fields, entries, e + 1)
            ELSE Bind(FieldFailure(fields[Min(expecting)], fields[Min(expecting)].wrapping,
                                   entries[e].value),
                      LAMBDA failure :
                          IF failure.t = "Some" THEN failure
                          ELSE EntriesFailure(fields, entries, e + 1))

ItemsFailure(field, wrapping, items, i) ==
    IF i > Len(items) THEN None
    ELSE Bind(FieldFailure(field, wrapping, items[i]),
              LAMBDA failure :
                  IF failure.t = "Some"
                  THEN Failure(<<Index(i - 1)>> \o failure.v.path, failure.v.value)
                  ELSE ItemsFailure(field, wrapping, items, i + 1))

\* The first failure of a field of the value fed to the seed.
NestedFailure ==
    IF entities[1].t = "object" THEN EntriesFailure(plan, entities[1].entries, 1) ELSE None

\* C15: when a field fails at any depth below the value fed to the seed, the part holds
\* exactly one error, recorded by the innermost failing field at the path of that field
\* (the path at its call plus its own edge); the enclosing fields add none, and the
\* UpdateSeed only marks its slot Error.
C15_OneErrorPerFailure ==
    (Fed /\ NestedFailure.t = "Some") =>
        /\ Len(part.errors) = 1
        /\ part.errors[1].path = Some(BoundaryObject.path \o NestedFailure.v.path)
        /\ part.updates[1] = Error

C15_Witness ==
    /\ Fed
    /\ NestedFailure.t = "Some"
    /\ Len(NestedFailure.v.path) = 3
    /\ Len(part.errors) = 1
    /\ part.updates[1] = Error

\* C16: a JSON null for a field whose outermost remaining wrapping is required is
\* rejected with exactly one error at that field's path and an Error slot, and after
\* ingest the deepest nullable Object or List on the boundary object's path is Null, or
\* the root is None when there is none; a JSON null for a field of the root selection
\* set whose outermost wrapping is nullable is written as Null, without error when no
\* other field fails.
C16_NullForRequired ==
    /\ (Fed /\ NestedFailure.t = "Some" /\ NestedFailure.v.value = JNull) =>
          /\ Len(part.errors) = 1
          /\ part.errors[1].path = Some(BoundaryObject.path \o NestedFailure.v.path)
          /\ part.updates[1] = Error
          /\ Ingested =>
                IF NullablesOn(last.before, BoundaryObject.path) = {}
                THEN root.t = "None"
                ELSE /\ root.t = "Some"
                     /\ TrailOf(Builder, BoundaryObject.path)
                            [Max(NullablesOn(last.before, BoundaryObject.path))].value = Null
    /\ (Fed /\ entities[1].t = "object" /\ NestedFailure = None
            /\ Missing(plan, entities[1].entries) \cap Required(plan) = {}) =>
          /\ part.errors = <<>>
          /\ part.updates[1].t = "Fields"
          /\ \A e \in 1..Len(entities[1].entries) :
                \A k \in 1..Len(plan) :
                    (plan[k].edge.n = entities[1].entries[e].key
                        /\ entities[1].entries[e].value = JNull) =>
                       \E f \in 1..Len(part.updates[1].fields) :
                           part.updates[1].fields[f] = [edge |-> plan[k].edge, value |-> Null]

C16_Witness ==
    /\ Ingested
    /\ NestedFailure.t = "Some"
    /\ NestedFailure.v.value = JNull
    /\ Len(NestedFailure.v.path) >= 2
    /\ NullablesOn(last.before, BoundaryObject.path) # {}
    /\ MeetsNull(Builder, BoundaryObject.path)

\* The fields of a selection set and of the selection sets below it.
RECURSIVE FieldsOf(_)
FieldsOf(fields) ==
    UNION {{fields[k]} \cup (IF fields[k].ty.t = "SelectionSet" THEN FieldsOf(fields[k].ty.fields) ELSE {}) :
              k \in 1..Len(fields)}

\* C17: the response path is balanced: the seed context is left with the path of the
\* boundary object once the value is deserialized, and FieldSeed::deserialize on any
\* field of the plan and any value leaves the path it was called with, whether it
\* succeeds or fails.
C17_PathBalanced ==
    Fed =>
        /\ visited.v.path = BoundaryObject.path
        /\ \A field \in FieldsOf(plan), value \in FieldValues :
              FieldSeed_deserialize(SeedContext_new(part, 0), field, field.wrapping, value).ctx.path
                  = BoundaryObject.path

C17_Witness ==
    /\ Fed
    /\ NestedFailure.t = "Some"
    /\ Len(NestedFailure.v.path) = 3
    /\ visited.v.path = BoundaryObject.path
    /\ BoundaryObject.path # <<>>

----------------------------------------------------------------------------
\* The upstream `errors` array rewritten into the part.

\* The errors seed returned Ok.
Rewritten == errors_count.t = "Some" /\ errors_count.v.ok

\* The errors the part had before the seed ran.
Earlier == Len(part.errors) - Len(upstream_errors.v.items)

\* The upstream error objects and the errors the seed appended for them.
Upstream(i) == upstream_errors.v.items[i]
Appended(i) == part.errors[Earlier + i]

\* The edge of a segment of an upstream path: a list index for an unsigned integer, the
\* key of the name for a string found in the response keys.
Translates(segment) ==
    \/ segment.t = "u64"
    \/ segment.t = "string" /\ segment.s \in DOMAIN ResponseKeys

EdgeOf(segment) ==
    IF segment.t = "u64" THEN Index(segment.n) ELSE ExtraFieldResponseKey(ResponseKeys[segment.s])

Translatable(path) ==
    path.t = "array" /\ \A k \in 1..Len(path.items) : Translates(path.items[k])

Translation(segments) == [k \in 1..Len(segments) |-> EdgeOf(segments[k])]

\* The message, the locations and the extensions of the i-th upstream error are carried
\* over, and its path is translated when every segment translates.
CarriedOver(i) ==
    /\ Appended(i).message = "Upstream error: " \o Upstream(i).message
    /\ ("upstream_locations" \in DOMAIN Appended(i).extensions) = (Field(Upstream(i), "locations") # JNull)
    /\ (Field(Upstream(i), "locations") # JNull =>
            Appended(i).extensions["upstream_locations"] = Upstream(i).locations)
    /\ ("upstream_extensions" \in DOMAIN Appended(i).extensions) = (Field(Upstream(i), "extensions") # JNull)
    /\ (Field(Upstream(i), "extensions") # JNull =>
            Appended(i).extensions["upstream_extensions"] = Upstream(i).extensions)
    /\ (Translatable(Field(Upstream(i), "path")) =>
            Appended(i).path = Some(Translation(Upstream(i).path.items)))

\* C18 as stated: every upstream error has exactly one error in the part, in order, with
\* the prefixed message, and its path, locations and extensions, when present, are in
\* extensions under upstream_path, upstream_locations and upstream_extensions.
C18_PathAlwaysStored ==
    Rewritten =>
        /\ errors_count.v.count = Len(upstream_errors.v.items)
        /\ Earlier >= 0
        /\ \A i \in 1..Len(upstream_errors.v.items) :
              /\ CarriedOver(i)
              /\ (Field(Upstream(i), "path") # JNull =>
                     /\ "upstream_path" \in DOMAIN Appended(i).extensions
                     /\ Appended(i).extensions["upstream_path"] = Upstream(i).path)

\* C18: when the upstream `errors` value deserializes, every upstream error has exactly
\* one error in the part, appended in upstream order after the errors the part had, with
\* the message 'Upstream error: ' followed by the upstream message; locations and
\* extensions that are not null are in extensions under upstream_locations and
\* upstream_extensions; a path whose segments all translate becomes the error's path
\* and is not stored in extensions, any other path that is not null is stored under
\* upstream_path and the error has no path.
C18_UpstreamErrorsRewritten ==
    Rewritten =>
        /\ errors_count.v.count = Len(upstream_errors.v.items)
        /\ Earlier >= 0
        /\ SubSeq(part.errors, 1, Earlier) \in EarlierErrors
        /\ \A i \in 1..Len(upstream_errors.v.items) :
              /\ CarriedOver(i)
              /\ DOMAIN Appended(i).extensions \subseteq
                     {"upstream_path", "upstream_locations", "upstream_extensions"}
              /\ ("upstream_path" \in DOMAIN Appended(i).extensions) =
                     (Field(Upstream(i), "path") # JNull /\ ~Translatable(Field(Upstream(i), "path")))
              /\ ("upstream_path" \in DOMAIN Appended(i).extensions =>
                     /\ Appended(i).extensions["upstream_path"] = Upstream(i).path
                     /\ Appended(i).path = None)
              /\ (Field(Upstream(i), "path") = JNull => Appended(i).path = None)

C18_Witness ==
    /\ Rewritten
    /\ Len(upstream_errors.v.items) = 2
    /\ Translatable(Field(Upstream(1), "path"))
    /\ Len(Upstream(1).path.items) = 3
    /\ Field(Upstream(1), "locations") # JNull
    /\ Appended(1).path = Some(<<ExtraFieldResponseKey(2), Index(0), ExtraFieldResponseKey(3)>>)
    /\ Appended(2).message = "Upstream error: bang"

\* The first segment of the path that does not translate.
Unresolved(path) == Min({k \in 1..Len(path.items) : ~Translates(path.items[k])})

\* The upstream errors whose path is an array with a segment that does not translate.
WithUnresolved ==
    {i \in 1..Len(upstream_errors.v.items) :
        /\ Field(Upstream(i), "path").t = "array"
        /\ ~Translatable(Upstream(i).path)}

\* C19 as stated: an upstream error whose path has a segment that does not resolve is
\* kept, its path is the prefix of the segments that resolved, and the remainder is
\* stored in extensions.upstream_path.
C19_ResolvedPrefix ==
    Rewritten =>
        \A i \in WithUnresolved :
            /\ Appended(i).path =
                   Some(Translation(SubSeq(Upstream(i).path.items, 1, Unresolved(Upstream(i).path) - 1)))
            /\ "upstream_path" \in DOMAIN Appended(i).extensions
            /\ Appended(i).extensions["upstream_path"] =
                   JArray(SubSeq(Upstream(i).path.items, Unresolved(Upstream(i).path),
                                 Len(Upstream(i).path.items)))

\* C19: an upstream error whose path has a segment that does not resolve is kept, with
\* no path at all, and the whole upstream path is stored in extensions.upstream_path.
C19_UnresolvedPath ==
    Rewritten =>
        /\ Earlier >= 0
        /\ \A i \in WithUnresolved :
              /\ Appended(i).message = "Upstream error: " \o Upstream(i).message
              /\ Appended(i).path = None
              /\ "upstream_path" \in DOMAIN Appended(i).extensions
              /\ Appended(i).extensions["upstream_path"] = Upstream(i).path

C19_Witness ==
    /\ Rewritten
    /\ \E i \in WithUnresolved :
          /\ Unresolved(Upstream(i).path) = 2
          /\ Appended(i).path = None
          /\ Appended(i).extensions["upstream_path"] = JArray(<<JKey("a"), JKey("zz")>>)

----------------------------------------------------------------------------
\* Engine::cached_prepare_operation

\* A call that has its result.
Done(c) == calls[c].pc = "done"

\* The calls that are over: a hit neither parsed nor took the write lock, a miss parsed,
\* and took the write lock exactly when the operation was built; the text of an
\* operation returned is in the cache.
C20_Done ==
    \A c \in Callers :
        Done(c) =>
            /\ calls[c].result.ok => calls[c].request.query \in DOMAIN op_cache
            /\ calls[c].hit => ~calls[c].parsed /\ ~calls[c].wrote /\ calls[c].result.ok
            /\ ~calls[c].hit =>
                  /\ calls[c].parsed
                  /\ calls[c].result = prepare_operation(calls[c].request)
                  /\ calls[c].wrote = calls[c].result.ok

\* The steps of a call: the lookup of a text in the cache returns the stored operation
\* at once and a text not in the cache goes on to parse; a failure to parse or bind
\* ends the call with the error; the cache changes only by the insert of the operation a
\* call has built, under the text of its query.
C20_Step ==
    /\ \A c \in Callers :
          /\ (calls[c].pc = "get" /\ calls'[c].pc # "get") =>
                IF calls[c].request.query \in DOMAIN op_cache
                THEN /\ calls'[c].pc = "done"
                     /\ calls'[c].result = Ok(op_cache[calls[c].request.query])
                     /\ ~calls'[c].parsed
                     /\ lock'.writer = lock.writer
                ELSE calls'[c].pc = "prepare"
          /\ (calls[c].pc = "prepare" /\ calls'[c].pc = "done") =>
                /\ ~calls'[c].result.ok
                /\ ~prepare_operation(calls[c].request).ok
    /\ op_cache' # op_cache =>
          \E c \in Callers :
              /\ calls[c].pc = "insert"
              /\ lock.writer = Some(c)
              /\ prepare_operation(calls[c].request) = Ok(calls[c].operation.v)
              /\ DOMAIN op_cache' = DOMAIN op_cache \cup {calls[c].request.query}
              /\ \A query \in DOMAIN op_cache' :
                    op_cache'[query] = IF query = calls[c].request.query
                                       THEN calls[c].operation.v ELSE op_cache[query]

\* C20: cached_prepare_operation returns the stored Operation on a hit, without parsing
\* and without the write lock; on a miss it parses and binds and inserts the Operation
\* under the query text only when that succeeded, so that the cache then maps the text
\* to an Operation; when parsing or binding fails the call changes nothing in the cache
\* and returns the error.
C20_CachedPrepareOperation == []C20_Done /\ [][C20_Step]_vars

C20_Witness ==
    \E c \in Callers, d \in Callers :
        /\ Done(c) /\ calls[c].hit
        /\ Done(d) /\ ~calls[d].result.ok
        /\ DOMAIN op_cache = {calls[c].request.query}

----------------------------------------------------------------------------
\* Concurrent calls of cached_prepare_operation

\* A caller waiting for or holding the write guard holds no read guard, and the write
\* guard excludes every read guard; the operation a call returns was built from the
\* text of its own request.
C21_Guards ==
    /\ \A c \in Callers : calls[c].pc \in {"write", "insert"} => c \notin lock.readers
    /\ lock.writer # None => lock.readers = {}
    /\ \A c \in Callers :
          (Done(c) /\ calls[c].result.ok) => calls[c].result.v.query = calls[c].request.query
    /\ \A c \in Callers, d \in Callers :
          (/\ c # d /\ Done(c) /\ Done(d) /\ ~calls[c].hit /\ ~calls[d].hit
           /\ calls[c].request.query = calls[d].request.query) =>
              calls[c].parsed /\ calls[d].parsed

\* An insert leaves the text of the writer mapped to the writer's operation, whatever
\* an earlier writer stored for it.
C21_LastWriter ==
    \A c \in Callers :
        (calls[c].pc = "insert" /\ calls'[c].pc = "done") =>
            /\ op_cache'[calls[c].request.query] = calls[c].operation.v
            /\ DOMAIN op_cache' = DOMAIN op_cache \cup {calls[c].request.query}

\* C21: under every interleaving of cached_prepare_operation calls no caller asks for
\* the write lock while it holds the read lock and every call completes; callers that
\* miss on the same text both parse, the cache has one entry for the text, holding the
\* operation of the last writer, and each caller gets an operation built from that text.
C21_ConcurrentCalls ==
    /\ []C21_Guards
    /\ [][C21_LastWriter]_vars
    /\ \A c \in Callers : (calls[c].pc = "read") ~> Done(c)

C21_Witness ==
    \E c \in Callers, d \in Callers :
        /\ c # d
        /\ Done(c) /\ Done(d)
        /\ ~calls[c].hit /\ ~calls[d].hit
        /\ calls[c].request.query = calls[d].request.query
        /\ calls[c].result.ok /\ calls[d].result.ok
        /\ calls[c].wrote /\ calls[d].wrote
        /\ op_cache[calls[c].request.query] = calls[d].result.v

----------------------------------------------------------------------------
----------------------------------------------------------------------------
\* Engine::execute

\* Engine::execute has returned to the caller.
Executed(c) == calls[c].pc = "executed"

\* C23: for a request whose query does not parse or does not bind, Engine::execute
\* returns a bad request, never a PreparedRequest, and its response carries exactly one
\* error, the one of the failure, and no `data` key.
C23_BadRequest ==
    \A c \in Callers :
        (Executed(c) /\ ~prepare_operation(calls[c].request).ok) =>
            /\ calls[c].outcome.v.t = "BadRequest"
            /\ DOMAIN calls[c].outcome.v.response = {"errors"}
            /\ Len(calls[c].outcome.v.response.errors) = 1
            /\ calls[c].outcome.v.response.errors[1].message =
                   prepare_operation(calls[c].request).err

C23_Witness ==
    \E c \in Callers, d \in Callers :
        /\ Executed(c) /\ calls[c].request.query = "{ zz }"
        /\ calls[c].outcome.v.t = "BadRequest"
        /\ Executed(d) /\ calls[d].request.query = "{ a"
        /\ calls[d].outcome.v.t = "BadRequest"

----------------------------------------------------------------------------
\* Engine::execute_stream

\* The request of the stream is a subscription that could be prepared.
Subscribed == prepare_coordinator(stream.request).ok /\ stream.request.query = "subscription { s }"

\* What the stream of a request that is no subscription yields.
OnlyResponse ==
    IF prepare_coordinator(stream.request).ok THEN ExecutedResponse
    ELSE prepare_coordinator(stream.request).err

\* The responses sent and not yet received are never more than the channel holds, and
\* a stream that is no subscription yields nothing but its one response.
C24_Bounded ==
    /\ Len(stream.channel.queue) <= ChannelCapacity
    /\ ~Subscribed =>
          /\ Len(stream.yielded) + Len(stream.channel.queue) <= 1
          /\ stream.ended => stream.yielded = <<OnlyResponse>>
          /\ (~prepare_coordinator(stream.request).ok /\ stream.ended) =>
                /\ DOMAIN stream.yielded[1] = {"errors"}
                /\ Len(stream.yielded[1].errors) >= 1
    /\ (Subscribed /\ stream.ended) =>
          stream.yielded = [n \in 1..stream.events |-> EventResponse(n)]

\* With the channel full the producer sends nothing until the consumer has taken a
\* response.
C24_Suspended ==
    Len(stream.channel.queue) = ChannelCapacity =>
        Len(stream'.channel.queue) <= Len(stream.channel.queue)

\* C24: execute_stream yields exactly one Response and then ends for a query or a
\* mutation, exactly one error Response and then ends when the operation or its
\* variables cannot be prepared; for a subscription the responses sent and not yet
\* received never exceed what the channel holds (its buffer plus the slot of its one
\* sender), and the producer waits while the channel is full.
C24_ExecuteStream ==
    /\ []C24_Bounded
    /\ [][C24_Suspended]_vars
    /\ <>(stream.ended)

C24_Witness ==
    /\ Subscribed
    /\ Len(stream.channel.queue) = ChannelCapacity
    /\ stream.channel.parked
    /\ stream.sent < stream.events
    /\ Len(stream.yielded) = 1

----------------------------------------------------------------------------
\* C25: the introspection executor never fails: on the part reserved for its plan it
\* gets a writer from next_writer, writes the fields of the selection into the slot of
\* the root object, and returns Ok with the part.
C25_IntrospectionNeverFails ==
    visited.t = "Some" =>
        /\ visited.v.ok
        /\ handed = <<Some(0)>>
        /\ part.updates[1].t = "Fields"
        /\ [k \in 1..Len(plan) |-> part.updates[1].fields[k].edge.n] = plan

----------------------------------------------------------------------------
\* The rules that give a header: the static ones, and the forward ones whose header
\* the client request carries.
Contributing ==
    {k \in 1..Len(subgraph_headers) :
        \/ subgraph_headers[k].value.t = "Static"
        \/ subgraph_headers[k].value.name \in DOMAIN ctx_headers}

\* The rule that gives the i-th header of the request.
RuleOf(i) ==
    CHOOSE k \in Contributing : Cardinality({j \in Contributing : j <= k}) = i

\* C26: the request posted to the subgraph carries exactly one header per static rule,
\* with the value of the rule, and one per forward rule whose header the client request
\* carries, with the value of that header, in the order of the rules; a forward rule
\* whose header is absent gives no header, and the request is posted all the same.
C26_SubgraphHeaders ==
    /\ ENABLED Post \/ fetch_request.t = "Some"
    /\ fetch_request.t = "Some" =>
          /\ Len(fetch_request.v.headers) = Cardinality(Contributing)
          /\ \A i \in 1..Len(fetch_request.v.headers) :
                /\ fetch_request.v.headers[i][1] = subgraph_headers[RuleOf(i)].name
                /\ fetch_request.v.headers[i][2] =
                      IF subgraph_headers[RuleOf(i)].value.t = "Static"
                      THEN subgraph_headers[RuleOf(i)].value.value
                      ELSE ctx_headers[subgraph_headers[RuleOf(i)].value.name]

\* A request was posted for a subgraph with a static rule, a forward rule whose header
\* the client sent and a forward rule whose header it did not send.
C26_Witness ==
    /\ fetch_request.t = "Some"
    /\ \E k \in 1..Len(subgraph_headers) : subgraph_headers[k].value.t = "Static"
    /\ \E k \in 1..Len(subgraph_headers) :
          /\ subgraph_headers[k].value.t = "Forward"
          /\ subgraph_headers[k].value.name \in DOMAIN ctx_headers
    /\ \E k \in 1..Len(subgraph_headers) :
          /\ subgraph_headers[k].value.t = "Forward"
          /\ subgraph_headers[k].value.name \notin DOMAIN ctx_headers
    /\ Len(fetch_request.v.headers) = 2

----------------------------------------------------------------------------
\* The builder had the failed plan given back a part with an Error slot for each of its
\* boundary objects: the field error at the output edge of the plan.
FieldErrorAtOutputEdge ==
    apply_updates(last.before,
                  [k \in 1..Len(last.part.root_response_objects) |-> Error],
                  last.part.root_response_objects, 1).b

\* C27: when the executor of a plan has failed, its part is not ingested and the slot
\* reserved for it is empty, what the other plans wrote is still in the builder, the
\* failure is one more error in the errors list, and the response is the one a field
\* error at the output edge of the plan gives once the nulls are propagated.
C27_ExecutorFailure ==
    last.op = "fail" =>
        /\ last.id \notin DOMAIN pending
        /\ is_empty(parts[last.id + 1])
        /\ \A i \in 1..Len(parts) : i # last.id + 1 /\ ~is_empty(last.before.parts[i])
                                         => ~is_empty(parts[i])
        /\ Len(errors) = Len(last.before.errors) + 1
        /\ SubSeq(errors, 1, Len(last.before.errors)) = last.before.errors
        /\ ResponseTree(Builder) = ResponseTree(FieldErrorAtOutputEdge)

----------------------------------------------------------------------------
\* The errors of the part that report a wrong number of entities; visit_seq reports
\* an excess only.
EntityCountErrors(p) ==
    {k \in 1..Len(p.errors) : p.errors[k].message = "Received more entities than expected"}

\* C28: when the part of a child plan has been ingested, it carries one update slot
\* per boundary object unless it holds an error on the number of entities, and no
\* boundary object is left without a slot while the part holds no error at all.
C28_SlotPerBoundaryObject ==
    Ingested =>
        /\ EntityCountErrors(part) = {} => Len(part.updates) = Len(part.root_response_objects)
        /\ \A k \in 1..Len(part.root_response_objects) :
              k <= Len(part.updates) \/ part.errors # <<>>

----------------------------------------------------------------------------
\* The errors of two builders are the same errors, in whatever order.
SameErrors(e1, e2) ==
    /\ Len(e1) = Len(e2)
    /\ \A e \in Range(e1) \cup Range(e2) :
          Cardinality({k \in DOMAIN e1 : e1[k] = e}) = Cardinality({k \in DOMAIN e2 : e2[k] = e})

\* The pairs of parts that are running at the same time: reserved and not yet ingested.
Running == {ij \in (DOMAIN pending) \X (DOMAIN pending) : ij[1] < ij[2]}

\* C29: whatever two parts running at the same time hold, ingesting them in either order gives the same root, the
\* same fields and the same Nulls in the response, and the same errors; only the order
\* of the errors may differ.
C29_Deterministic ==
    \A ij \in Running :
        \A pi \in ExecutorOutputs(pending[ij[1]]), pj \in ExecutorOutputs(pending[ij[2]]) :
            \E one \in {ingest(ingest(Builder, pi).b, pj)}, other \in {ingest(ingest(Builder, pj).b, pi)} :
                /\ one.panic = "none" /\ other.panic = "none"
                /\ ResponseTree(one.b) = ResponseTree(other.b)
                /\ SameErrors(one.b.errors, other.b.errors)

\* A part with an error was ingested and changed the response while another part was
\* running, which can give back an error too: the errors of the two come in the order
\* of the ingests, the response is the same.
C29_Witness ==
    /\ last.op = "ingest"
    /\ last.part.errors # <<>>
    /\ ResponseTree(last.before) # ResponseTree(Builder)
    /\ \E id \in DOMAIN pending :
          \E pj \in ExecutorOutputs(pending[id]) :
                /\ pj.errors # <<>>
                /\ ingest(Builder, pj).b.errors
                      # ingest(ingest(last.before, pj).b, last.part).b.errors
                /\ ResponseTree(ingest(Builder, pj).b)
                      = ResponseTree(ingest(ingest(last.before, pj).b, last.part).b)

----------------------------------------------------------------------------
\* The upstream response was read and a status was returned for it.
StatusReturned == status.t = "Some" /\ status.v.t = "Some"
ReturnedStatus == status.v.v

\* The `data` keys of the upstream response.
DataKeys == {k \in 1..Len(upstream_response.v) : upstream_response.v[k].key = "data"}

\* C30: the status returned for an upstream response is Success exactly when the part
\* holds no error once the map is read; with errors in the part it is RequestError when
\* the map had no `data` key and FieldError when it had one, data_is_null telling
\* whether the value of `data` was null; the count of both is that of the errors of
\* the part and is greater than 0.
C30_ResponseStatus ==
    StatusReturned =>
        /\ ReturnedStatus.t = "Success" <=> part.errors = <<>>
        /\ (part.errors # <<>> /\ DataKeys = {}) => ReturnedStatus.t = "RequestError"
        /\ (part.errors # <<>> /\ DataKeys # {}) =>
              /\ ReturnedStatus.t = "FieldError"
              /\ \A k \in DataKeys : ReturnedStatus.data_is_null = upstream_response.v[k].null
        /\ ReturnedStatus.t \in {"FieldError", "RequestError"} =>
              ReturnedStatus.count > 0 /\ ReturnedStatus.count = Len(part.errors)

\* A response whose `data` is null and whose data seed reported an error came with two
\* upstream errors: the status is FieldError with data_is_null for the two errors.
C30_Witness ==
    /\ StatusReturned
    /\ ReturnedStatus = FieldError(2, TRUE)
    /\ \E k \in DataKeys : upstream_response.v[k].null /\ upstream_response.v[k].pushed = 1
    /\ Len(part.errors) = 2

----------------------------------------------------------------------------
\* The request of the caller was prepared and its variables were accepted.
Accepted(c) ==
    /\ prepare_operation(calls[c].request).ok
    /\ Variables_from_request(prepare_operation(calls[c].request).v, calls[c].request).ok

\* C31: Engine::execute returns a PreparedRequest exactly when the operation was
\* prepared, its variables were accepted and it is a Query or a Mutation; an accepted
\* Subscription gets a bad request whose response carries the one error telling that
\* subscriptions need a streaming transport.
C31_NoSubscription ==
    \A c \in Callers :
        Executed(c) =>
            /\ calls[c].outcome.v.t = "PreparedRequest"
                  <=> /\ Accepted(c)
                      /\ OperationType(calls[c].request.query) \in {"Query", "Mutation"}
            /\ (Accepted(c) /\ OperationType(calls[c].request.query) = "Subscription") =>
                  /\ calls[c].outcome.v.t = "BadRequest"
                  /\ Len(calls[c].outcome.v.response.errors) = 1
                  /\ calls[c].outcome.v.response.errors[1].message =
                         "Subscriptions are only suported on streaming transports"

\* A subscription and a mutation were executed: the first was refused, the second
\* prepared.
C31_Witness ==
    \E c \in Callers, d \in Callers :
        /\ Executed(c) /\ calls[c].request.query = "subscription { s }"
        /\ Accepted(c) /\ calls[c].outcome.v.t = "BadRequest"
        /\ Executed(d) /\ calls[d].request.query = "mutation { m }"
        /\ calls[d].outcome.v.t = "PreparedRequest"

----------------------------------------------------------------------------
\* The slots of a part that are still Reserved.
ReservedSlots(p) == {k \in 1..Len(p.updates) : p.updates[k].t = "Reserved"}

----------------------------------------------------------------------------
\* C33: once the seed of the writer has run, the handle of the executor is the only one
\* left of the part; the part is given to ingest in that state only, and ingest takes
\* its content without the panic on a part still in use.
C33_SoleOwner ==
    /\ Fed => strong_count = 1
    /\ (Fed /\ part.data.id \in DOMAIN pending) =>
          /\ Rc_into_inner(part, strong_count) = Ok(part)
          /\ ResponseBuilder_ingest(Builder, part, strong_count).panic = "none"
    /\ Ingested => strong_count = 1

\* A writer of the part was handed out and its seed wrote fields; the part was then
\* ingested.
C33_Witness ==
    /\ Ingested
    /\ handed = <<Some(0)>>
    /\ part.updates[1].t = "Fields"
    /\ strong_count = 1

----------------------------------------------------------------------------
\* The fields the slots k.. of the part hold for the object, in slot order.
RECURSIVE SlotFields(_, _, _)
SlotFields(p, object_id, k) ==
    IF k > Len(p.updates) \/ k > Len(p.root_response_objects) THEN <<>>
    ELSE (IF p.updates[k].t = "Fields" /\ p.root_response_objects[k].id = object_id
          THEN p.updates[k].fields ELSE <<>>)
         \o SlotFields(p, object_id, k + 1)

\* The value is the one it was, or Null.
KeptOrNull(before, after) == after = before \/ after = Null

\* The data of every part as the ingest found it, the ingested part included.
DataBefore(i) == IF i = last.id + 1 THEN last.part.data ELSE last.before.parts[i]

\* C34: an ingest keeps every object and every list of every part at its place; an
\* object holds the fields it had, in their order, followed by the fields of the slots
\* of the part that belong to it, a list holds the items it had, and the only values
\* that differ are Null.
C34_OnlyAdditions ==
    last.op = "ingest" =>
        /\ Len(parts) = Len(last.before.parts)
        /\ \A i \in 1..Len(parts) :
              /\ parts[i].id = DataBefore(i).id
              /\ Len(parts[i].objects) = Len(DataBefore(i).objects)
              /\ Len(parts[i].lists) = Len(DataBefore(i).lists)
              /\ \A o \in 1..Len(parts[i].objects) :
                    \E had \in {DataBefore(i).objects[o]
                                    \o SlotFields(last.part, ResponseObjectId(i - 1, o - 1), 1)} :
                        /\ Len(parts[i].objects[o]) = Len(had)
                        /\ \A f \in 1..Len(had) :
                              /\ parts[i].objects[o][f].edge = had[f].edge
                              /\ KeptOrNull(had[f].value, parts[i].objects[o][f].value)
              /\ \A l \in 1..Len(parts[i].lists) :
                    KeptOrNull(DataBefore(i).lists[l], parts[i].lists[l])

\* An ingest appended fields to an object that had fields already, and nulled a value
\* of a part ingested earlier.
C34_Witness ==
    /\ last.op = "ingest"
    /\ \E i \in 1..Len(parts) :
          /\ i # last.id + 1
          /\ \E o \in 1..Len(parts[i].objects) :
                /\ last.before.parts[i].objects[o] # <<>>
                /\ Len(parts[i].objects[o]) > Len(last.before.parts[i].objects[o])
    /\ \E i \in 1..Len(parts) :
          /\ i # last.id + 1
          /\ \/ \E o \in 1..Len(parts[i].objects) : \E f \in 1..Len(last.before.parts[i].objects[o]) :
                   /\ parts[i].objects[o][f].value = Null
                   /\ last.before.parts[i].objects[o][f].value # Null
             \/ \E l \in 1..Len(parts[i].lists) :
                   /\ parts[i].lists[l] = Null
                   /\ last.before.parts[i].lists[l] # Null

----------------------------------------------------------------------------
\* What build returns and what propagate_error leaves of the errors, in every state.
C35_Built ==
    /\ ResponseBuilder_build(Builder).errors = errors
    /\ \A path \in InputPaths(Builder) : propagate_error(Builder, path).errors = errors

\* A step of the request leaves the errors as they are, or is an ingest that puts the
\* errors of the part after them.
C35_Step ==
    \/ errors' = errors
    \/ /\ last'.op = "ingest"
       /\ last'.before.errors = errors
       /\ errors' = errors \o last'.part.errors

\* C35: the errors of the builder only grow: an ingest appends the errors of the part,
\* in their order, after the ones present, new_writer and propagate_error leave them as
\* they are, and build returns the errors accumulated.
C35_ErrorsOnlyGrow ==
    /\ []C35_Built
    /\ [][C35_Step /\ (last'.op = "new_writer" => errors' = errors)]_vars

\* An ingest that propagated an error appended the errors of its part after errors the
\* builder held, and build returns them all.
C35_Witness ==
    /\ last.op = "ingest"
    /\ last.before.errors # <<>>
    /\ last.part.errors # <<>>
    /\ last.part.errors # last.before.errors
    /\ \/ last.part.error_paths_to_propagate # <<>>
       \/ \E k \in 1..Len(last.part.updates) : last.part.updates[k].t = "Error"
    /\ ResponseBuilder_build(Builder).errors = last.before.errors \o last.part.errors

----------------------------------------------------------------------------
\* The upstream errors of the response, rewritten, in the order of the map.
RECURSIVE RewrittenErrors(_, _)
RewrittenErrors(map, k) ==
    IF k > Len(map) THEN <<>>
    ELSE (IF map[k].key = "errors" /\ map[k].ok
          THEN UpstreamGraphqlErrorsSeed(root_path(RootPlanStart.part, 0), map[k]) ELSE <<>>)
         \o RewrittenErrors(map, k + 1)

\* The errors recorded in the part when the upstream errors are stored: the ones the
\* part had, and the ones the data seed added.
RecordedErrors ==
    IF DataKeys = {} THEN RootPlanStart.part.errors
    ELSE InfaillibleNullableSeed(RootPlanStart.part, root_path(RootPlanStart.part, 0),
                                 upstream_response.v[CHOOSE k \in DataKeys : TRUE]).part.errors

\* C36: once a response with upstream errors is read, the part holds the rewritten
\* upstream errors alone when `data` was null or absent, and the errors recorded so
\* far followed by the rewritten upstream errors when `data` was present and not null.
C36_ReplaceOrAppend ==
    (StatusReturned /\ RewrittenErrors(upstream_response.v, 1) # <<>>) =>
        /\ (\A k \in DataKeys : upstream_response.v[k].null) =>
              part.errors = RewrittenErrors(upstream_response.v, 1)
        /\ (\E k \in DataKeys : ~upstream_response.v[k].null) =>
              part.errors = RecordedErrors \o RewrittenErrors(upstream_response.v, 1)

\* The data seed recorded an error for a null `data`, and the two upstream errors took
\* its place.
C36_Witness ==
    /\ StatusReturned
    /\ DataKeys # {}
    /\ \A k \in DataKeys : upstream_response.v[k].null
    /\ RecordedErrors # <<>>
    /\ Len(RewrittenErrors(upstream_response.v, 1)) = 2
    /\ part.errors = RewrittenErrors(upstream_response.v, 1)
    /\ \A k \in 1..Len(RecordedErrors) : RecordedErrors[k] \notin Range(part.errors)

----------------------------------------------------------------------------
\* The `errors` keys of the upstream response.
ErrorsKeys == {k \in 1..Len(upstream_response.v) : upstream_response.v[k].key = "errors"}

\* The response with its `data` key and its `errors` key at each other's place.
KeysExchanged ==
    [k \in 1..Len(upstream_response.v) |->
        IF k \in DataKeys THEN upstream_response.v[CHOOSE e \in ErrorsKeys : TRUE]
        ELSE IF k \in ErrorsKeys THEN upstream_response.v[CHOOSE d \in DataKeys : TRUE]
        ELSE upstream_response.v[k]]

----------------------------------------------------------------------------
\* The messages of the errors reported when nothing more precise was.
GenericMessages == {"Error decoding response from upstream", "Upstream data error"}

\* The data seed was given the value of `data` and returned an error: the first `data`
\* key is reached when every `errors` value before it deserializes.
DataSeedFailed ==
    /\ DataKeys # {}
    /\ \E d \in DataKeys :
          /\ \A k \in DataKeys : d <= k
          /\ ~upstream_response.v[d].ok
          /\ \A e \in ErrorsKeys : e < d => upstream_response.v[e].ok

\* C38: once the response went through ingest_deserializer_into_response, the part
\* holds an error if no status was returned or if the data seed returned an error; a
\* generic error is the first error of the part, added when the part held none; a
\* response with neither `data` nor `errors`, or with two `data` keys, gets no status.
C38_FailureReported ==
    status.t = "Some" =>
        /\ (status.v = None \/ DataSeedFailed) => part.errors # <<>>
        /\ \A i \in 1..Len(part.errors) :
              part.errors[i].message \in GenericMessages =>
                  i = 1 /\ part.errors[i].path = Some(root_path(RootPlanStart.part, 0))
        /\ (DataKeys = {} /\ ErrorsKeys = {}) => status.v = None
        /\ Cardinality(DataKeys) >= 2 => status.v = None

\* A response with two `data` keys got no status; the data seed had failed on the first
\* one after it recorded an error, and no generic error was added to that one.
C38_Witness ==
    /\ status = Some(None)
    /\ Cardinality(DataKeys) = 2
    /\ DataSeedFailed
    /\ Len(part.errors) = 1
    /\ part.errors[1].message \notin GenericMessages

----------------------------------------------------------------------------
\* What the producer of the stream goes on with once prepare_coordinator returned, from
\* parsing and binding the request anew.
PreparedAnew ==
    IF ~prepare_operation(stream.request).ok
    THEN stream.pc \in {"send", "returned"}
         /\ (stream.pc = "send" =>
                stream.sending = Some(Response_from_error(
                                         GraphqlError(prepare_operation(stream.request).err, None))))
    ELSE IF ~Variables_from_request(prepare_operation(stream.request).v, stream.request).ok
    THEN stream.pc \in {"send", "returned"}
    ELSE IF prepare_operation(stream.request).v.ty = "Subscription"
    THEN stream.pc \in {"subscription", "returned"}
    ELSE stream.pc \in {"send", "returned"}
         /\ (stream.pc = "send" => stream.sending = Some(ExecutedResponse))

\* C39: execute_stream leaves the operation cache and its lock as they are at every
\* step, and goes on with what parsing and binding the request gives, whether the
\* cache holds the text of the request or not.
C39_StreamBypassesCache ==
    /\ [][op_cache' = op_cache /\ lock' = lock]_vars
    /\ [](stream.pc # "prepare" => PreparedAnew)

\* A request was prepared for a stream while the cache held other texts but not its
\* own: the cache still does not hold it.
C39_Witness ==
    /\ stream.pc \in {"send", "subscription"}
    /\ prepare_operation(stream.request).ok
    /\ op_cache # <<>>
    /\ get(op_cache, stream.request.query) = None

----------------------------------------------------------------------------
\* The path cannot be followed: the walk stands at an Object or a List, or at the root,
\* and the next edge names no field of the object, an index past the end of the list,
\* or is of the kind that does not fit the node.
CannotFollow(b, path) ==
    /\ Len(TrailOf(b, path)) < Len(path)
    /\ \/ TrailOf(b, path) = <<>>
       \/ TrailOf(b, path)[Len(TrailOf(b, path))].value.t \in {"Object", "List"}

\* C40: propagate_error of a path that cannot be followed leaves the builder as it is,
\* the root, every value and the errors.
C40_UnfollowedPath ==
    \A path \in InputPaths(Builder) :
        CannotFollow(Builder, path) => propagate_error(Builder, path) = Builder

\* The root is set, and each of the three ways not to follow a path happens below a
\* nullable value a completed walk would have set to Null: a field the object does not
\* have, an index past the end of a list, an index into an object.
C40_Witness ==
    /\ root.t = "Some"
    /\ \A stray \in StrayEdges :
          \E path \in InputPaths(Builder) :
              /\ CannotFollow(Builder, path)
              /\ path[Len(path)] = stray
              /\ NullablesOn(Builder, path) # {}
              /\ propagate_error(Builder, path) = Builder
    /\ \E path \in InputPaths(Builder) :
          /\ CannotFollow(Builder, path)
          /\ path[Len(path)] = Index(0)
          /\ Len(path) > 1
          /\ TrailOf(Builder, path)[Len(path) - 1].value.t = "Object"

====
